---- MODULE Spec2Model ----
(***************************************************************************)
(* A model of the dora operators of mofa_graph_rag/script: data_prep,      *)
(* question_gen, rag_index, rag_query and result_logger.  Each operator's  *)
(* on_event handler is one atomic action; the retry loops are modelled     *)
(* step by step (focus = "retry") and, inside a handler, run to their      *)
(* return; the envelope helpers create_agent_output / load_node_result are *)
(* operators over tagged values (focus = "envelope"); extract_queries is   *)
(* an operator over tokenised file contents (focus = "extract"), and        *)
(* extract_unique_contexts one over the lines of JSONL files (focus =       *)
(* "contexts").  A second specification, SpecPipeline, wires the five       *)
(* operators by their channel ids and starts from one trigger Input for     *)
(* data_prep.                                                                *)
(***************************************************************************)
EXTENDS Integers, Sequences, FiniteSets, TLC

VARIABLES
    focus,      \* the operator instance the host delivers events to, or "retry" / "envelope"
    ops,        \* operator name -> the fields of its Operator object
    nEv,        \* number of events delivered so far (the i-th event carries metadata i)
    ev,         \* the event handled by the last on_event call
    obs,        \* what the last on_event call did (return value, calls made)
    hist,       \* operator name -> cumulative counters over the instance's lifetime
    outbox,     \* every send_output call made so far, in order
    rl,         \* the retry loop being stepped
    envl,       \* the value being wrapped / unwrapped
    xq,         \* the questions file extract_queries is applied to, and its result
    uc,         \* the directory extract_unique_contexts is applied to, and what it wrote
    net         \* the outputs on their way to the operators that take them as inputs

vars == <<focus, ops, nEv, ev, obs, hist, outbox, rl, envl, xq, uc, net>>

opVars == <<focus, ops, nEv, ev, obs, hist, outbox>>

-----------------------------------------------------------------------------
(* Bounds of the model *)

MaxEvents == 4

MaxAttempts == 3

MaxWrap == 2

MaxFiles == 2

MaxQueries == 2
\* lines of a questions file
MaxLines == 3

-----------------------------------------------------------------------------
(* Python values, tagged by type: str, bool, None, list, dict *)

NoFields == [x \in {} |-> x]

Str(s) == [kind |-> "str", s |-> s, d |-> NoFields]

Bool(b) == [kind |-> "bool", s |-> IF b THEN "True" ELSE "False", d |-> NoFields]

PyNone == [kind |-> "none", s |-> "", d |-> NoFields]

List(tag) == [kind |-> "list", s |-> tag, d |-> NoFields]

Dict(f) == [kind |-> "dict", s |-> "", d |-> f]

EnvelopeKeys == {"agent_name", "agent_result", "dataflow_status"}

\* the dict literal every create_agent_output copy returns
EnvelopeDict(agent_name, agent_result, dataflow_status) ==
    Dict([key \in EnvelopeKeys |->
            CASE key = "agent_name" -> Str(agent_name)
              [] key = "agent_result" -> agent_result
              [] OTHER -> Bool(dataflow_status)])

create_agent_output_data_prep(agent_name, agent_result, dataflow_status) ==
    EnvelopeDict(agent_name, agent_result, dataflow_status)

create_agent_output_question_gen(agent_name, agent_result, dataflow_status) ==
    EnvelopeDict(agent_name, agent_result, dataflow_status)

create_agent_output_rag_index(agent_name, agent_result, dataflow_status) ==
    EnvelopeDict(agent_name, agent_result, dataflow_status)

create_agent_output_rag_query(agent_name, agent_result, dataflow_status) ==
    EnvelopeDict(agent_name, agent_result, dataflow_status)

\* isinstance(input_data, dict) and "agent_result" in input_data
HasAgentResult(input_data) ==
    input_data.kind = "dict" /\ "agent_result" \in DOMAIN input_data.d

load_node_result_question_gen(input_data) ==
    IF HasAgentResult(input_data) THEN input_data.d["agent_result"] ELSE input_data

load_node_result_rag_index(input_data) ==
    IF HasAgentResult(input_data) THEN input_data.d["agent_result"] ELSE input_data

load_node_result_rag_query(input_data) ==
    IF HasAgentResult(input_data) THEN input_data.d["agent_result"] ELSE input_data

\* a unwrap that keeps unwrapping while the value looks like an envelope
RECURSIVE load_node_result_deep(_)
load_node_result_deep(input_data) ==
    IF HasAgentResult(input_data)
    THEN load_node_result_deep(input_data.d["agent_result"])
    ELSE input_data

load_node_result_result_logger(input_data) ==
    IF HasAgentResult(input_data) THEN input_data.d["agent_result"] ELSE input_data

Producers == {"data_prep", "question_gen", "rag_index", "rag_query"}

Consumers == {"question_gen", "rag_index", "rag_query", "result_logger"}

\* the copy of create_agent_output in the producer's file
Wrap(producer, agent_name, agent_result, dataflow_status) ==
    CASE producer = "data_prep" ->
            create_agent_output_data_prep(agent_name, agent_result, dataflow_status)
      [] producer = "question_gen" ->
            create_agent_output_question_gen(agent_name, agent_result, dataflow_status)
      [] producer = "rag_index" ->
            create_agent_output_rag_index(agent_name, agent_result, dataflow_status)
      [] OTHER ->
            create_agent_output_rag_query(agent_name, agent_result, dataflow_status)

\* the copy of load_node_result in the consumer's file
Unwrap(consumer, input_data) ==
    CASE consumer = "question_gen" -> load_node_result_question_gen(input_data)
      [] consumer = "rag_index" -> load_node_result_rag_index(input_data)
      [] consumer = "rag_query" -> load_node_result_rag_query(input_data)
      [] OTHER -> load_node_result_result_logger(input_data)

\* the agent names the operators pass
AgentNames == {"data_prep", "question_generator", "rag_indexer", "rag_query_evaluator"}

\* results handed between stages, and values no stage of this family produces
ResultValues ==
    { Str("out/contexts"), Str(""), PyNone, List("queries"),
      Dict([key \in {"results_file", "errors_file"} |-> Str("out/" \o key)]),
      Dict([key \in {"agent_result"} |-> Str("inner")]),
      Dict([key \in {"agent_name", "dataflow_status"} |-> Str("x")]),
      EnvelopeDict("data_prep", Str("out/contexts"), FALSE),
      EnvelopeDict("rag_query_evaluator",
                   Dict([key \in {"results_file"} |-> Str("out/r")]), TRUE) }

EnvlIdle == [pc |-> "idle", producer |-> "", consumer |-> "", name |-> "",
             final |-> FALSE, cur |-> PyNone, steps |-> 0,
             last |-> "none", before |-> PyNone]

\* the envelope helpers applied to a value: wrap it, or unwrap it
EnvlInit ==
    envl \in { [EnvlIdle EXCEPT !.pc = "run", !.cur = v] : v \in ResultValues }

\* a producer wraps the current value (create_agent_output)
EnvlWrap ==
    /\ envl.pc = "run"
    /\ envl.steps < MaxWrap
    /\ \E p \in Producers, n \in AgentNames, f \in BOOLEAN :
         envl' = [envl EXCEPT !.producer = p, !.name = n, !.final = f,
                              !.before = envl.cur,
                              !.cur = Wrap(p, n, envl.cur, f),
                              !.steps = @ + 1, !.last = "wrap"]
    /\ UNCHANGED <<opVars, rl, xq, uc, net>>

\* a consumer unwraps the current value (load_node_result); "before" keeps the
\* value that was wrapped when the unwrap follows a wrap, else the value unwrapped
EnvlUnwrap ==
    /\ envl.pc = "run"
    /\ envl.steps < MaxWrap + 1
    /\ \E c \in Consumers :
         envl' = [envl EXCEPT !.consumer = c,
                              !.before = IF envl.last = "wrap" THEN @ ELSE envl.cur,
                              !.cur = Unwrap(c, envl.cur),
                              !.steps = @ + 1,
                              !.last = IF envl.last = "wrap" THEN "roundtrip" ELSE "unwrap"]
    /\ UNCHANGED <<opVars, rl, xq, uc, net>>

-----------------------------------------------------------------------------
(* The retry loops: download_dataset, call_llm_for_questions, the insertion *)
(* loop of _insert_contexts_from_file, and _process_single_query.           *)
(* The operation fails on every attempt except attempt k (k = 0: never      *)
(* succeeds); the error raised by attempt i is error i.                     *)

RetryKinds == {"download", "llm", "insert", "query"}

\* a value a loop returns: ok = it is a success value; py = the Python value;
\* att = the attempt whose response it carries; err = the attempt whose error
\* it carries (0: none)
Ret(ok, py, att, err) == [ok |-> ok, py |-> py, att |-> att, err |-> err]

NoRet == Ret(FALSE, "unset", 0, 0)

\* download_dataset: return True / the directory check after the last failure /
\* the return False after the while loop
DownloadReturn(where, dirNonEmpty, i) ==
    CASE where = "success" -> Ret(TRUE, "True", 0, 0)
      [] where = "exhausted" ->
            IF dirNonEmpty THEN Ret(TRUE, "True", 0, 0) ELSE Ret(FALSE, "False", 0, 0)
      [] OTHER -> Ret(FALSE, "False", 0, 0)

\* call_llm_for_questions: return result / return None / falling off the loop
LlmReturn(where, dirNonEmpty, i) ==
    CASE where = "success" -> Ret(TRUE, "content", i, 0)
      [] where = "exhausted" -> Ret(FALSE, "None", 0, 0)
      [] OTHER -> Ret(FALSE, "None", 0, 0)

\* a variant of the insertion loop that reports success whatever happened
InsertReturnSwallow(where, dirNonEmpty, i) == Ret(TRUE, "True", 0, 0)

\* the insertion loop: return True / return False / the final return False
InsertReturn(where, dirNonEmpty, i) ==
    CASE where = "success" -> Ret(TRUE, "True", 0, 0)
      [] where = "exhausted" -> Ret(FALSE, "False", 0, 0)
      [] OTHER -> Ret(FALSE, "False", 0, 0)

\* _process_single_query: ({query, result}, None) / (None, {query, error: str(e)}) /
\* (None, {query, error: "Query failed after retries"}), whose text is no raised error
QueryReturn(where, dirNonEmpty, i) ==
    CASE where = "success" -> Ret(TRUE, "result_record", i, 0)
      [] where = "exhausted" -> Ret(FALSE, "error_record", 0, i)
      [] OTHER -> Ret(FALSE, "error_record", 0, 0)

LoopReturn(kind, where, dirNonEmpty, i) ==
    CASE kind = "download" -> DownloadReturn(where, dirNonEmpty, i)
      [] kind = "llm" -> LlmReturn(where, dirNonEmpty, i)
      [] kind = "insert" -> InsertReturn(where, dirNonEmpty, i)
      [] OTHER -> QueryReturn(where, dirNonEmpty, i)

\* variants of the two comparisons: one attempt more, one attempt fewer, and
\* a sleep after every failure
AttemptsRemainOffByOne(retries, max_retries) == retries <= max_retries

AttemptsRemainOneFewer(retries, max_retries) == retries + 1 < max_retries

SleepBeforeRetryAlways(retries, max_retries) == TRUE

\* while retries < max_retries
AttemptsRemain(retries, max_retries) == retries < max_retries

\* if retries < max_retries: sleep, in the except branch
SleepBeforeRetry(retries, max_retries) == retries < max_retries

\* the state of a loop before its first test
LoopStart(kind, max_retries, k, dirNonEmpty) ==
    [pc |-> "test", kind |-> kind, N |-> max_retries, k |-> k, dne |-> dirNonEmpty,
     retries |-> 0, calls |-> 0, waits |-> 0, trace |-> <<>>, result |-> NoRet,
     stop |-> FALSE]

LoopIdle == [LoopStart("download", 0, 0, FALSE) EXCEPT !.pc = "idle"]

\* a variant of the while test that makes the first attempt unconditionally, as
\* a do-while loop would
LoopTestAtLeastOnce(r) ==
    IF r.calls = 0 \/ AttemptsRemain(r.retries, r.N)
    THEN [r EXCEPT !.pc = "call"]
    ELSE [r EXCEPT !.pc = "done", !.result = LoopReturn(r.kind, "after", r.dne, 0)]

\* the while test
LoopTest(r) ==
    IF AttemptsRemain(r.retries, r.N)
    THEN [r EXCEPT !.pc = "call"]
    ELSE [r EXCEPT !.pc = "done", !.result = LoopReturn(r.kind, "after", r.dne, 0)]

\* the try block: the operation is invoked; it returns, or raises and the
\* except branch counts the failure
LoopCall(r) ==
    LET i == r.calls + 1
        called == [r EXCEPT !.calls = i, !.trace = Append(@, "call")]
    IN  IF i = r.k
        THEN [called EXCEPT !.pc = "done",
                            !.result = LoopReturn(r.kind, "success", r.dne, i)]
        ELSE IF SleepBeforeRetry(r.retries + 1, r.N)
             THEN [called EXCEPT !.retries = @ + 1, !.pc = "sleep"]
             ELSE [called EXCEPT !.retries = @ + 1, !.pc = "done",
                                 !.result = LoopReturn(r.kind, "exhausted", r.dne, i)]

\* time.sleep(delay) / await asyncio.sleep(delay)
LoopSleep(r) == [r EXCEPT !.waits = @ + 1, !.trace = Append(@, "wait"), !.pc = "test"]

LoopStep(r) ==
    CASE r.pc = "test" -> LoopTest(r)
      [] r.pc = "call" -> LoopCall(r)
      [] r.pc = "sleep" -> LoopSleep(r)
      [] OTHER -> r

\* a loop run to its return
RECURSIVE LoopRun(_)
LoopRun(r) == IF r.pc \in {"test", "call", "sleep"} THEN LoopRun(LoopStep(r)) ELSE r

download_dataset(max_retries, k, dirNonEmpty) ==
    LoopRun(LoopStart("download", max_retries, k, dirNonEmpty))

call_llm_for_questions(max_retries, k) ==
    LoopRun(LoopStart("llm", max_retries, k, FALSE))

insert_with_retries(max_retries, k) ==
    LoopRun(LoopStart("insert", max_retries, k, FALSE))

process_single_query(max_retries, k) ==
    LoopRun(LoopStart("query", max_retries, k, FALSE))

\* the attempt numbers an operation may succeed at (0: never), and the
\* maximum attempt counts a caller may pass
AttemptChoices == 0 .. MaxAttempts

MaxRetriesChoices == {-1} \cup (0 .. MaxAttempts)

\* inside a handler the operation never succeeds, succeeds at once, or
\* succeeds on the last attempt the caller allows
HandlerAttemptChoices(max_retries) == {0, 1, max_retries}

\* the maximum attempt counts a configuration file may set
ConfigRetryChoices == {0, 1, MaxAttempts}

RetryInit ==
    rl \in { LoopStart(kind, n, k, dne) :
               kind \in RetryKinds, n \in MaxRetriesChoices,
               k \in AttemptChoices, dne \in BOOLEAN }

RetryTest ==
    /\ rl.pc = "test"
    /\ rl' = LoopTest(rl)
    /\ UNCHANGED <<opVars, envl, xq, uc, net>>

RetryCall ==
    /\ rl.pc = "call"
    /\ rl' = LoopCall(rl)
    /\ UNCHANGED <<opVars, envl, xq, uc, net>>

RetrySleep ==
    /\ rl.pc = "sleep"
    /\ rl' = LoopSleep(rl)
    /\ UNCHANGED <<opVars, envl, xq, uc, net>>

\* the host has a Stop event for the operator while on_event is inside the
\* loop, about to sleep between two attempts: the event waits, for on_event
\* is synchronous and the loop looks at nothing but its counter
HostStopDuringRetry ==
    /\ rl.pc = "sleep"
    /\ ~rl.stop
    /\ rl' = [rl EXCEPT !.stop = TRUE]
    /\ UNCHANGED <<opVars, envl, xq, uc, net>>

-----------------------------------------------------------------------------
(* The operators.  An event carries a path string, raw or wrapped in an     *)
(* envelope; the filesystem the paths are checked against is fixed.         *)

Ops == {"data_prep", "question_gen", "rag_index", "rag_query", "result_logger"}

\* os.path.isfile / os.path.isdir on the paths of the model's filesystem
IsFile(path) == path \in {"questions.txt", "questions2.txt"}

IsDir(path) == path \in {"ctx_dir", "index_dir"}

\* max_retries=3 of download_dataset and of call_llm_for_questions
DownloadMaxRetries == 3

LlmMaxRetries == 3

\* self.config: None, or the section read from the YAML file; "partial" is a
\* section that was assigned but whose paths were not resolved (load_config
\* raised after the assignment)
NoConfig == [state |-> "None", max_retries |-> 0, skip |-> FALSE]

\* the fields __init__ sets (an operator lacking a field keeps the default)
OpInit ==
    [config |-> NoConfig, processed |-> FALSE, dep1 |-> FALSE, dep2 |-> FALSE,
     rag_instance |-> FALSE, questions_file_path |-> "None", rag_index_dir |-> "None"]

\* what one on_event call did
Obs0 ==
    [ret |-> "none", cfgLoad |-> FALSE, depSetup |-> FALSE, released |-> FALSE,
     bridge |-> "none", started |-> FALSE, calls |-> 0, waits |-> 0, sends |-> 0,
     sendRaised |-> FALSE, cause |-> "", extract |-> "none", loop |-> LoopIdle,
     matched |-> 0, files |-> <<>>, queries |-> 0, results |-> <<>>, errors |-> <<>>,
     rwrite |-> "none", ewrite |-> "none", outcome |-> "none"]

\* a call in progress: the operator's fields, what the call did so far, and
\* the send_output calls it made
Ctx(s) == [s |-> s, o |-> Obs0, out |-> <<>>]

Return(c, status) == [c EXCEPT !.o.ret = status]

Fail(c, status, cause) == [c EXCEPT !.o.ret = status, !.o.cause = cause]

\* the stage logic produced its result ("success") or did not ("failure")
Outcome(c, outcome) == [c EXCEPT !.o.outcome = outcome]

\* self.processed = True
MarkProcessed(c) == [c EXCEPT !.s.processed = TRUE]

\* a variant that takes an Input of any id
ExpectedIdsAny(op) ==
    {"unique_contexts_dir", "generated_questions_file", "rag_index_dir", "other"}

\* the ids on_event compares dora_event["id"] with
ExpectedIds(op) ==
    IF op = "rag_query"
    THEN {"generated_questions_file", "rag_index_dir"}
    ELSE {"unique_contexts_dir"}

\* a variant that re-arms the operator on a Stop or Error event
IgnoreEventRearms(s, e) == { Return(Ctx([s EXCEPT !.processed = FALSE]), "CONTINUE") }

\* a variant that takes the event as the end of the operator
IgnoreEventShutsDown(s, e) == { Return(MarkProcessed(Ctx(s)), "CONTINUE") }

\* the STOP, ERROR and unknown-type branches, and the branch for an Input
\* that is not for this stage: a log line, then return DoraStatus.CONTINUE
IgnoreEvent(s, e) == { Return(Ctx(s), "CONTINUE") }

\* the outcomes of load_config: the file or the section is missing; a required
\* key is missing (self.config = None); an exception after self.config was
\* assigned; success.  values: the settings the section holds.
LoadConfigOutcomes(c, values) ==
    LET c1 == [c EXCEPT !.o.cfgLoad = TRUE]
    IN  { [c |-> Fail(c1, "none", "config_missing"), ok |-> FALSE],
          [c |-> Fail([c1 EXCEPT !.s.config = NoConfig], "none", "config_keys"), ok |-> FALSE] }
        \cup { [c |-> Fail([c1 EXCEPT !.s.config = [v EXCEPT !.state = "partial"]],
                           "none", "config_late"), ok |-> FALSE] : v \in values }
        \cup { [c |-> [c1 EXCEPT !.s.config = [v EXCEPT !.state = "ok"]], ok |-> TRUE] :
               v \in values }

load_config_data_prep(c) ==
    LoadConfigOutcomes(c, { [NoConfig EXCEPT !.skip = b] : b \in BOOLEAN })

load_config_question_gen(c) == LoadConfigOutcomes(c, {NoConfig})

load_config_rag_index(c) ==
    LoadConfigOutcomes(c, { [NoConfig EXCEPT !.max_retries = n] : n \in ConfigRetryChoices })

load_config_rag_query(c) ==
    LoadConfigOutcomes(c, { [NoConfig EXCEPT !.max_retries = n] : n \in ConfigRetryChoices })

\* a variant that goes on without loading the configuration
EnsureConfigNeverLoads(c, loaded) == { [c |-> c, ok |-> TRUE] }

\* a variant that carries on whatever load_config returned
EnsureConfigIgnoresFailure(c, loaded) ==
    IF c.s.config.state = "None"
    THEN { [c |-> l.c, ok |-> TRUE] : l \in loaded }
    ELSE { [c |-> c, ok |-> TRUE] }

\* if not self.config: if not self.load_config(): return STOP
EnsureConfig(c, loaded) ==
    IF c.s.config.state = "None" THEN loaded ELSE { [c |-> c, ok |-> TRUE] }

\* a variant of the send that passes empty metadata instead of the event's
SendOutputFreshMetadata(c, op, channel, data, e) ==
    { [c EXCEPT !.out = Append(@, [op |-> op, channel |-> channel, data |-> data,
                                   meta |-> 0, raised |-> raised]),
                !.o.sends = @ + 1,
                !.o.sendRaised = raised] : raised \in BOOLEAN }

\* send_output(channel, pa.array([data]), dora_event['metadata']): the host's
\* primitive returns, or raises
SendOutput(c, op, channel, data, e) ==
    { [c EXCEPT !.out = Append(@, [op |-> op, channel |-> channel, data |-> data,
                                   meta |-> e.meta, raised |-> raised]),
                !.o.sends = @ + 1,
                !.o.sendRaised = raised] : raised \in BOOLEAN }

\* a retry loop run inside a handler: its invocations and waits are counted
WithLoop(c, run) ==
    [c EXCEPT !.o.calls = @ + run.calls, !.o.waits = @ + run.waits, !.o.loop = run]

-----------------------------------------------------------------------------
(* data_prep *)

\* Step 1 of the main logic: download_dataset(repo_id, download_dir), or with
\* SKIP_DOWNLOAD the check that the directory exists and is not empty
DataPrepDownload(c) ==
    IF c.s.config.skip
    THEN { [c |-> c, ok |-> dirNonEmpty] : dirNonEmpty \in BOOLEAN }
    ELSE { [c |-> WithLoop(c, download_dataset(DownloadMaxRetries, k, dirNonEmpty)),
            ok |-> download_dataset(DownloadMaxRetries, k, dirNonEmpty).result.ok] :
           k \in HandlerAttemptChoices(DownloadMaxRetries), dirNonEmpty \in BOOLEAN }

\* the envelope data_prep sends on unique_contexts_dir
DataPrepOutput == create_agent_output_data_prep("data_prep", Str("ctx_dir"), FALSE)

\* a variant of Step 2 that treats an extraction that returned False as fatal:
\* no envelope is sent for it
DataPrepSendOnlyIfExtracted(c, e) ==
    UNION { IF x \in {"raise", "issues"}
            THEN { Fail(MarkProcessed(Outcome([c EXCEPT !.o.extract = x], "failure")),
                        "STOP", "exception") }
            ELSE { IF snt.o.sendRaised
                   THEN Fail(MarkProcessed(snt), "STOP", "exception")
                   ELSE Return(MarkProcessed(snt), "STOP") :
                   snt \in SendOutput(Outcome([c EXCEPT !.o.extract = x], "success"), "data_prep",
                                      "unique_contexts_dir", DataPrepOutput, e) } :
            x \in {"ok", "issues", "raise"} }

\* Step 2 and the output, inside the try block: extract_unique_contexts
\* returns True or False, or raises; send_output raising is caught as well
DataPrepExtractAndSend(c, e) ==
    UNION { IF x = "raise"
            THEN { Fail(MarkProcessed(Outcome([c EXCEPT !.o.extract = x], "failure")),
                        "STOP", "exception") }
            ELSE { IF snt.o.sendRaised
                   THEN Fail(MarkProcessed(snt), "STOP", "exception")
                   ELSE Return(MarkProcessed(snt), "STOP") :
                   snt \in SendOutput(Outcome([c EXCEPT !.o.extract = x], "success"), "data_prep",
                                      "unique_contexts_dir", DataPrepOutput, e) } :
            x \in {"ok", "issues", "raise"} }

DataPrepMain(c, e) ==
    UNION { IF d.ok
            THEN DataPrepExtractAndSend(d.c, e)
            ELSE { Fail(MarkProcessed(Outcome(d.c, "failure")), "STOP", "download_failed") } :
            d \in DataPrepDownload([c EXCEPT !.o.started = TRUE]) }

\* Operator.on_event of data_prep_operator.py: the set of ways the call can go
data_prep_on_event(s, e) ==
    IF e.type = "INPUT"
    THEN IF s.processed
         THEN { Return(Ctx(s), "CONTINUE") }
         ELSE UNION { IF l.ok
                      THEN DataPrepMain(l.c, e)
                      ELSE { [l.c EXCEPT !.o.ret = "STOP"] } :
                      l \in EnsureConfig(Ctx(s), load_config_data_prep(Ctx(s))) }
    ELSE IgnoreEvent(s, e)

-----------------------------------------------------------------------------
(* question_gen *)

\* _setup_dependencies: the tokenizer and the client are built, or an
\* exception resets both to None
setup_dependencies(c) ==
    LET c1 == [c EXCEPT !.o.depSetup = TRUE]
    IN  IF c1.s.config.state = "None"
        THEN { [c |-> Fail(c1, "none", "deps_failed"), ok |-> FALSE] }
        ELSE { [c |-> [c1 EXCEPT !.s.dep1 = TRUE, !.s.dep2 = TRUE], ok |-> TRUE],
               [c |-> Fail([c1 EXCEPT !.s.dep1 = FALSE, !.s.dep2 = FALSE],
                           "none", "deps_failed"), ok |-> FALSE] }

\* if not self.tokenizer or not self.llm_client: if not self._setup_dependencies()
EnsureDependencies(c, setup) ==
    IF ~c.s.dep1 \/ ~c.s.dep2 THEN setup ELSE { [c |-> c, ok |-> TRUE] }

\* a variant that runs the task itself when the loop refuses it
BridgeRunsAnyway(c) ==
    { [c |-> [c EXCEPT !.o.bridge = "ran"], ran |-> TRUE],
      [c |-> [c EXCEPT !.o.bridge = "refused"], ran |-> TRUE] }

\* loop.run_until_complete(task): the loop drives the task, or raises
\* RuntimeError without running it (it is already running, or closed)
Bridge(c) ==
    { [c |-> [c EXCEPT !.o.bridge = "ran"], ran |-> TRUE],
      [c |-> [c EXCEPT !.o.bridge = "refused"], ran |-> FALSE] }

\* _generate_questions_task: the context file is loaded, the LLM is called
\* with retries, the questions are written; the path on success, else None
generate_questions_task(c0) ==
    LET c == [c0 EXCEPT !.o.started = TRUE]
    IN  IF c.s.config.state = "None" \/ ~c.s.dep1 \/ ~c.s.dep2
        THEN { [c |-> Fail(c, "none", "not_configured"), path |-> "None"] }
        ELSE { [c |-> Fail(c, "none", "context_file"), path |-> "None"] }
             \cup UNION {
                 LET run == call_llm_for_questions(LlmMaxRetries, k)
                     c2 == WithLoop(c, run)
                 IN  IF ~run.result.ok
                     THEN { [c |-> Fail(c2, "none", "llm_failed"), path |-> "None"] }
                     ELSE { [c |-> Fail(c2, "none", "empty_content"), path |-> "None"],
                            [c |-> Fail(c2, "none", "write_failed"), path |-> "None"],
                            [c |-> c2, path |-> "questions.txt"] } :
                 k \in HandlerAttemptChoices(LlmMaxRetries) }

\* run_main_task: the payload is unwrapped and checked, then the task runs
question_gen_main_task(c, e) ==
    LET unique_contexts_dir == load_node_result_question_gen(e.value).s
    IN  IF unique_contexts_dir = "" \/ ~IsDir(unique_contexts_dir)
        THEN { [c |-> Fail(c, "none", "invalid_input"), path |-> "None"] }
        ELSE generate_questions_task(c)

\* the envelope question_gen sends on generated_questions_file
QuestionGenOutput(path) ==
    create_agent_output_question_gen("question_generator", Str(path), FALSE)

\* "Handle Result": send the path and mark processed, or mark processed (failed)
QuestionGenHandleResult(c, path, e) ==
    IF path # "None"
    THEN { IF snt.o.sendRaised
           THEN Fail(snt, "RAISE", "send_output")
           ELSE Return(MarkProcessed(snt), "STOP") :
           snt \in SendOutput(Outcome(c, "success"), "question_gen", "generated_questions_file",
                              QuestionGenOutput(path), e) }
    ELSE { [MarkProcessed(Outcome(c, "failure")) EXCEPT !.o.ret = "STOP"] }

\* the bridge and the result handling of question_gen
QuestionGenProcess(c, e) ==
    UNION { IF b.ran
            THEN UNION { QuestionGenHandleResult(t.c, t.path, e) :
                         t \in question_gen_main_task(b.c, e) }
            ELSE QuestionGenHandleResult(Fail(b.c, "none", "loop"), "None", e) :
            b \in Bridge(c) }

\* Operator.on_event of question_gen_operator.py
question_gen_on_event(s, e) ==
    IF e.type = "INPUT" /\ e.id \in ExpectedIds("question_gen")
    THEN IF s.processed
         THEN { Return(Ctx(s), "CONTINUE") }
         ELSE UNION {
                IF ~l.ok
                THEN { [l.c EXCEPT !.o.ret = "STOP"] }
                ELSE UNION { IF ~d.ok
                             THEN { [d.c EXCEPT !.o.ret = "STOP"] }
                             ELSE QuestionGenProcess(d.c, e) :
                             d \in EnsureDependencies(l.c, setup_dependencies(l.c)) } :
                l \in EnsureConfig(Ctx(s), load_config_question_gen(Ctx(s))) }
    ELSE IgnoreEvent(s, e)

-----------------------------------------------------------------------------
(* rag_index *)

\* _setup_async_funcs: both functions are defined from the configuration
setup_async_funcs(c) ==
    LET c1 == [c EXCEPT !.o.depSetup = TRUE]
    IN  IF c1.s.config.state = "None"
        THEN { [c |-> Fail(c1, "none", "deps_failed"), ok |-> FALSE] }
        ELSE { [c |-> [c1 EXCEPT !.s.dep1 = TRUE, !.s.dep2 = TRUE], ok |-> TRUE] }

\* _initialize_rag_instance: LightRAG is built and its storages initialized,
\* or an exception resets self.rag_instance to None
initialize_rag_instance(c) ==
    IF c.s.config.state = "None" \/ ~c.s.dep1 \/ ~c.s.dep2
    THEN { [c |-> Fail(c, "none", "rag_init"), ok |-> FALSE] }
    ELSE { [c |-> [c EXCEPT !.s.rag_instance = TRUE], ok |-> TRUE],
           [c |-> Fail([c EXCEPT !.s.rag_instance = FALSE], "none", "rag_init"),
            ok |-> FALSE] }

\* _insert_contexts_from_file: the file cannot be read or holds no list
\* (False); holds an empty list (True, no insert); else the insertion loop
insert_contexts_from_file(c) ==
    IF ~c.s.rag_instance
    THEN { [c |-> [c EXCEPT !.o.files = Append(@, "failed")], ok |-> FALSE] }
    ELSE { [c |-> [c EXCEPT !.o.files = Append(@, "failed")], ok |-> FALSE],
           [c |-> [c EXCEPT !.o.files = Append(@, "empty")], ok |-> TRUE] }
         \cup { LET run == insert_with_retries(c.s.config.max_retries, k)
                IN  [c |-> [WithLoop(c, run) EXCEPT
                              !.o.files = Append(@, IF run.result.ok THEN "inserted"
                                                    ELSE "failed")],
                     ok |-> run.result.ok] :
                k \in HandlerAttemptChoices(c.s.config.max_retries) }

\* a variant of the file loop that goes on to the remaining files after a
\* failure and reports the failure at the end
RECURSIVE IndexFilesTryAll(_, _)
IndexFilesTryAll(c, remaining) ==
    IF remaining = 0
    THEN { [c |-> c, ok |-> TRUE] }
    ELSE UNION { IF r.ok
                 THEN IndexFilesTryAll(r.c, remaining - 1)
                 ELSE { [c |-> Fail(t.c, "none", "insert_failed"), ok |-> FALSE] :
                        t \in IndexFilesTryAll(r.c, remaining - 1) } :
                 r \in insert_contexts_from_file(c) }

\* for file_path in context_files: stop on the first failure
RECURSIVE IndexFiles(_, _)
IndexFiles(c, remaining) ==
    IF remaining = 0
    THEN { [c |-> c, ok |-> TRUE] }
    ELSE UNION { IF r.ok
                 THEN IndexFiles(r.c, remaining - 1)
                 ELSE { [c |-> Fail(r.c, "none", "insert_failed"), ok |-> FALSE] } :
                 r \in insert_contexts_from_file(c) }

\* main_indexing_task: initialize, check the payload, insert every matched file
main_indexing_task(c0, e) ==
    LET c == [c0 EXCEPT !.o.started = TRUE]
        unique_contexts_dir == load_node_result_rag_index(e.value).s
    IN  UNION { IF ~i.ok
                THEN { [c |-> i.c, ok |-> FALSE] }
                ELSE IF unique_contexts_dir = "" \/ ~IsDir(unique_contexts_dir)
                     THEN { [c |-> Fail(i.c, "none", "invalid_input"), ok |-> FALSE] }
                     ELSE UNION { IndexFiles([i.c EXCEPT !.o.matched = n], n) :
                                  n \in 0 .. MaxFiles } :
                i \in initialize_rag_instance(c) }

\* a variant of the rag_index envelope that claims to end the pipeline run
RagIndexOutputFinal == create_agent_output_rag_index("rag_indexer", Str("index_dir"), TRUE)

\* the envelope rag_index sends on rag_index_dir (the WORKING_DIR)
RagIndexOutput == create_agent_output_rag_index("rag_indexer", Str("index_dir"), FALSE)

\* "if success:" after the bridge; success is assigned only by the try block
RagIndexHandleResult(c, success, e) ==
    IF success = "unbound"
    THEN { Fail(c, "RAISE", "unbound_success") }
    ELSE IF success = "True"
         THEN { IF snt.o.sendRaised
                THEN Fail(snt, "RAISE", "send_output")
                ELSE Return(MarkProcessed(snt), "STOP") :
                snt \in SendOutput(Outcome(c, "success"), "rag_index", "rag_index_dir",
                                   RagIndexOutput, e) }
         ELSE { [MarkProcessed(Outcome(c, "failure")) EXCEPT !.o.ret = "STOP"] }

RagIndexProcess(c, e) ==
    UNION { IF b.ran
            THEN UNION { RagIndexHandleResult(t.c, IF t.ok THEN "True" ELSE "False", e) :
                         t \in main_indexing_task(b.c, e) }
            ELSE RagIndexHandleResult(Fail(b.c, "none", "loop"), "unbound", e) :
            b \in Bridge(c) }

\* if not self.llm_model_func or not self.embedding_func_wrapper
EnsureAsyncFuncs(c, setup) ==
    IF ~c.s.dep1 \/ ~c.s.dep2 THEN setup ELSE { [c |-> c, ok |-> TRUE] }

\* Operator.on_event of rag_index_operator.py
rag_index_on_event(s, e) ==
    IF e.type = "INPUT" /\ e.id \in ExpectedIds("rag_index")
    THEN IF s.processed
         THEN { Return(Ctx(s), "CONTINUE") }
         ELSE UNION {
                IF ~l.ok
                THEN { [l.c EXCEPT !.o.ret = "STOP"] }
                ELSE UNION { IF ~d.ok
                             THEN { [d.c EXCEPT !.o.ret = "STOP"] }
                             ELSE RagIndexProcess(d.c, e) :
                             d \in EnsureAsyncFuncs(l.c, setup_async_funcs(l.c)) } :
                l \in EnsureConfig(Ctx(s), load_config_rag_index(Ctx(s))) }
    ELSE IgnoreEvent(s, e)

-----------------------------------------------------------------------------
(* rag_query *)

\* a variant in which a new questions file makes the operator wait for a new
\* index directory
RagQueryStoreInputQuestionsFirst(s, e) ==
    LET payload == load_node_result_rag_query(e.value).s
    IN  IF e.id = "generated_questions_file"
        THEN IF IsFile(payload)
             THEN [s EXCEPT !.questions_file_path = payload, !.rag_index_dir = "None"]
             ELSE s
        ELSE IF e.id = "rag_index_dir"
             THEN IF IsDir(payload) THEN [s EXCEPT !.rag_index_dir = payload] ELSE s
             ELSE s

\* a variant of the store that clears the field when the payload fails its check
RagQueryStoreInputOrClear(s, e) ==
    LET payload == load_node_result_rag_query(e.value).s
    IN  IF e.id = "generated_questions_file"
        THEN [s EXCEPT !.questions_file_path = IF IsFile(payload) THEN payload ELSE "None"]
        ELSE IF e.id = "rag_index_dir"
             THEN [s EXCEPT !.rag_index_dir = IF IsDir(payload) THEN payload ELSE "None"]
             ELSE s

\* the two branches that store an input: the path is kept only if it passes
\* os.path.isfile / os.path.isdir
RagQueryStoreInput(s, e) ==
    LET payload == load_node_result_rag_query(e.value).s
    IN  IF e.id = "generated_questions_file"
        THEN IF IsFile(payload) THEN [s EXCEPT !.questions_file_path = payload] ELSE s
        ELSE IF e.id = "rag_index_dir"
             THEN IF IsDir(payload) THEN [s EXCEPT !.rag_index_dir = payload] ELSE s
             ELSE s

\* a variant of the join test that forgets the index directory
BothInputsReadyQuestionsOnly(s) == s.questions_file_path # "None" /\ ~s.processed

\* a variant of the join test that is satisfied by either input
BothInputsReadyEither(s) ==
    (s.questions_file_path # "None" \/ s.rag_index_dir # "None") /\ ~s.processed

\* if self.questions_file_path and self.rag_index_dir and not self.processed
BothInputsReady(s) ==
    s.questions_file_path # "None" /\ s.rag_index_dir # "None" /\ ~s.processed

\* the copies of _setup_async_funcs and _initialize_rag_instance in rag_query
setup_async_funcs_rag_query(c) == setup_async_funcs(c)

initialize_rag_instance_rag_query(c) == initialize_rag_instance(c)

\* a variant of the query loop that gives up at the first query whose attempts
\* all fail
RECURSIVE RunQueriesUntilFailure(_, _, _)
RunQueriesUntilFailure(c, i, n) ==
    IF i > n
    THEN { c }
    ELSE UNION { LET run == process_single_query(c.s.config.max_retries, k)
                     c2 == WithLoop(c, run)
                 IN  IF run.result.ok
                     THEN RunQueriesUntilFailure([c2 EXCEPT !.o.results = Append(@, i)],
                                                 i + 1, n)
                     ELSE { [c2 EXCEPT !.o.errors = Append(@, i)] } :
                 k \in HandlerAttemptChoices(c.s.config.max_retries) }

\* a variant of the query loop that keeps a result record for a query whose
\* attempts all failed, besides its error record
RECURSIVE RunQueriesRecordsBoth(_, _, _)
RunQueriesRecordsBoth(c, i, n) ==
    IF i > n
    THEN { c }
    ELSE UNION { LET run == process_single_query(c.s.config.max_retries, k)
                     c2 == WithLoop(c, run)
                 IN  RunQueriesRecordsBoth(
                         IF run.result.ok
                         THEN [c2 EXCEPT !.o.results = Append(@, i)]
                         ELSE [c2 EXCEPT !.o.results = Append(@, i),
                                         !.o.errors = Append(@, i)],
                         i + 1, n) :
                 k \in HandlerAttemptChoices(c.s.config.max_retries) }

\* for i, query_text in enumerate(queries): one _process_single_query each,
\* its record appended to results_list or to errors_list
RECURSIVE RunQueries(_, _, _)
RunQueries(c, i, n) ==
    IF i > n
    THEN { c }
    ELSE IF ~c.s.rag_instance
         THEN RunQueries([c EXCEPT !.o.errors = Append(@, i)], i + 1, n)
         ELSE UNION { LET run == process_single_query(c.s.config.max_retries, k)
                          c2 == WithLoop(c, run)
                      IN  RunQueries(IF run.result.ok
                                     THEN [c2 EXCEPT !.o.results = Append(@, i)]
                                     ELSE [c2 EXCEPT !.o.errors = Append(@, i)],
                                     i + 1, n) :
                      k \in HandlerAttemptChoices(c.s.config.max_retries) }

\* a variant of the results write without the default=str fallback: a result
\* that is not serializable leaves no results file
SaveResultsNoFallback(c) ==
    { [c |-> [c EXCEPT !.o.rwrite = rw, !.o.ewrite = ew],
       results_path |-> IF rw = "ok" THEN "results.json" ELSE "None",
       errors_path |-> IF ew = "ok" THEN "errors.json" ELSE "None"] :
      rw \in {"ok", "fallback_ok", "fallback_failed", "failed"}, ew \in {"ok", "failed"} }

\* the two writes that end _run_queries_and_save_task: the results array (with
\* the default=str fallback after a TypeError) and the errors array
SaveResults(c) ==
    { [c |-> [c EXCEPT !.o.rwrite = rw, !.o.ewrite = ew],
       results_path |-> IF rw \in {"ok", "fallback_ok"} THEN "results.json" ELSE "None",
       errors_path |-> IF ew = "ok" THEN "errors.json" ELSE "None"] :
      rw \in {"ok", "fallback_ok", "fallback_failed", "failed"}, ew \in {"ok", "failed"} }

NoPaths(c) == [c |-> c, results_path |-> "None", errors_path |-> "None"]

\* _run_queries_and_save_task
run_queries_and_save_task(c0) ==
    LET c == [c0 EXCEPT !.o.started = TRUE]
    IN  UNION { IF ~i.ok
                THEN { NoPaths(i.c) }
                ELSE { NoPaths(Fail(i.c, "none", "no_queries")) }
                     \cup UNION { UNION { SaveResults(q) :
                                          q \in RunQueries([i.c EXCEPT !.o.queries = n], 1, n) } :
                                  n \in 1 .. MaxQueries } :
                i \in initialize_rag_instance_rag_query(c) }

\* the envelope rag_query sends on query_results
RagQueryOutput(results_path, errors_path) ==
    create_agent_output_rag_query(
        "rag_query_evaluator",
        Dict([key \in {"results_file", "errors_file"} |->
                IF key = "results_file" THEN Str(results_path) ELSE Str(errors_path)]),
        TRUE)

\* "Handle Result" of rag_query
RagQueryHandleResult(c, results_path, errors_path, e) ==
    IF results_path # "None" /\ errors_path # "None"
    THEN { IF snt.o.sendRaised
           THEN Fail(snt, "RAISE", "send_output")
           ELSE Return(MarkProcessed(snt), "STOP") :
           snt \in SendOutput(Outcome(c, "success"), "rag_query", "query_results",
                              RagQueryOutput(results_path, errors_path), e) }
    ELSE { [MarkProcessed(Outcome(c, "failure")) EXCEPT !.o.ret = "STOP"] }

RagQueryProcess(c, e) ==
    UNION { IF b.ran
            THEN UNION { RagQueryHandleResult(t.c, t.results_path, t.errors_path, e) :
                         t \in run_queries_and_save_task(b.c) }
            ELSE RagQueryHandleResult(Fail(b.c, "none", "loop"), "None", "None", e) :
            b \in Bridge(c) }

\* the "Both inputs received" branch
RagQueryRelease(c0, e) ==
    LET c == [c0 EXCEPT !.o.released = TRUE]
    IN  UNION { IF ~l.ok
                THEN { [l.c EXCEPT !.o.ret = "STOP"] }
                ELSE UNION { IF ~d.ok
                             THEN { [d.c EXCEPT !.o.ret = "STOP"] }
                             ELSE RagQueryProcess(d.c, e) :
                             d \in EnsureAsyncFuncs(l.c, setup_async_funcs_rag_query(l.c)) } :
                l \in EnsureConfig(c, load_config_rag_query(c)) }

\* Operator.on_event of rag_query_operator.py
rag_query_on_event(s, e) ==
    IF e.type = "INPUT"
    THEN IF e.id \notin ExpectedIds("rag_query")
         THEN { Return(Ctx(s), "CONTINUE") }
         ELSE LET c == Ctx(RagQueryStoreInput(s, e))
              IN  IF BothInputsReady(c.s)
                  THEN RagQueryRelease(c, e)
                  ELSE { Return(c, "CONTINUE") }
    ELSE IgnoreEvent(s, e)

-----------------------------------------------------------------------------
(* result_logger *)

\* Operator.on_event of result_logger_operator.py: the payload is logged; the
\* try block and its except branch both mark processed and return STOP
result_logger_on_event(s, e) ==
    IF e.type = "INPUT"
    THEN IF s.processed
         THEN { Return(Ctx(s), "CONTINUE") }
         ELSE { Return(MarkProcessed(Outcome([Ctx(s) EXCEPT !.o.started = TRUE], "success")),
                       "STOP"),
                Fail(MarkProcessed(Outcome([Ctx(s) EXCEPT !.o.started = TRUE], "failure")),
                     "STOP", "exception") }
    ELSE IgnoreEvent(s, e)

-----------------------------------------------------------------------------
(* extract_queries of rag_query_operator.py.  A file content is a sequence  *)
(* of tokens: "Q" is a marker, a text the pattern -\s*Question\s*\d+: matches; *)
(* "a" and "b" are words; " " is a blank; "\n" ends a line; "**" is bold     *)
(* markup.                                                                   *)

\* what \s matches
IsSpace(t) == t \in {" ", "\n"}

\* data.replace("**", "")
RemoveBold(data) == SelectSeq(data, LAMBDA t : t # "**")

\* the position of the first token at or after p that \s does not match
\* (Len(data) + 1: there is none)
RECURSIVE SkipSpace(_, _)
SkipSpace(data, p) ==
    IF p > Len(data) \/ ~IsSpace(data[p]) THEN p ELSE SkipSpace(data, p + 1)

\* the position of the last token (.+) takes when it starts at p: "." does
\* not match a newline
RECURSIVE EndOfLine(_, _)
EndOfLine(data, p) ==
    IF p + 1 > Len(data) \/ data[p + 1] = "\n" THEN p ELSE EndOfLine(data, p + 1)

\* re.findall(r"-\s*Question\s*\d+:\s*(.+)", data, ...): the captures of the
\* non-overlapping matches from position p on.  After a marker \s* takes
\* every blank and newline and (.+) the rest of the line it stops in; when
\* only blanks and newlines follow up to the end, backtracking leaves (.+)
\* the last blank, if there is one
RECURSIVE FindAll(_, _)
FindAll(data, p) ==
    IF p > Len(data)
    THEN <<>>
    ELSE IF data[p] # "Q"
         THEN FindAll(data, p + 1)
         ELSE LET q == SkipSpace(data, p + 1)
              IN  IF q <= Len(data)
                  THEN <<SubSeq(data, q, EndOfLine(data, q))>>
                       \o FindAll(data, EndOfLine(data, q) + 1)
                  ELSE IF \E j \in p + 1 .. Len(data) : data[j] = " "
                       THEN << <<" ">> >>
                       ELSE <<>>

\* q.strip()
RECURSIVE Strip(_)
Strip(q) ==
    IF q = <<>>
    THEN q
    ELSE IF IsSpace(Head(q))
         THEN Strip(Tail(q))
         ELSE IF IsSpace(q[Len(q)])
              THEN Strip(SubSeq(q, 1, Len(q) - 1))
              ELSE q

\* extract_queries(file_path): [] when the file cannot be read; else the
\* stripped, non-empty captures in the order found
extract_queries(file) ==
    IF ~file.readable
    THEN <<>>
    ELSE LET found_queries == FindAll(RemoveBold(file.data), 1)
             stripped == [i \in 1 .. Len(found_queries) |-> Strip(found_queries[i])]
         IN  SelectSeq(stripped, LAMBDA q : q # <<>>)

\* the lines a questions file is made of
LineShapes ==
    { <<>>, <<"a">>, <<"Q">>, <<"Q", " ">>, <<"Q", " ", "a">>, <<"Q", " ", "b">>,
      <<"Q", "a", " ">>, <<"**", "Q", "**", " ", "a">>, <<"a", " ", "Q", " ", "b">> }

\* f.read() of a file with these lines
RECURSIVE JoinLines(_)
JoinLines(lines) ==
    IF lines = <<>>
    THEN <<>>
    ELSE IF Len(lines) = 1
         THEN lines[1]
         ELSE lines[1] \o <<"\n">> \o JoinLines(Tail(lines))

QuestionsFile(readable, lines) ==
    [readable |-> readable, lines |-> lines, data |-> JoinLines(lines)]

XqIdle == [pc |-> "idle", file |-> QuestionsFile(FALSE, <<>>), queries |-> <<>>]

\* a questions file of up to MaxLines lines, or a path that cannot be opened
ExtractInit ==
    \/ \E n \in 0 .. MaxLines : \E lines \in [1 .. n -> LineShapes] :
          xq = [pc |-> "ready", file |-> QuestionsFile(TRUE, lines), queries |-> <<>>]
    \/ xq = [pc |-> "ready", file |-> QuestionsFile(FALSE, <<>>), queries |-> <<>>]

\* queries = extract_queries(questions_file)
ExtractQueries ==
    /\ focus = "extract"
    /\ xq.pc = "ready"
    /\ xq' = [xq EXCEPT !.pc = "done", !.queries = extract_queries(xq.file)]
    /\ UNCHANGED <<opVars, rl, envl, uc, net>>

-----------------------------------------------------------------------------
(* extract_unique_contexts of data_prep, over the lines of the JSONL files   *)
(* of the download directory.  A line is blank, is no JSON, is JSON that is  *)
(* no object, or is an object whose "context" is a string, null (or absent) *)
(* or a value of another type.                                               *)

JsonlLine(json, context) == [json |-> json, context |-> context]

JsonlLines ==
    { JsonlLine("blank", PyNone), JsonlLine("invalid", PyNone), JsonlLine("array", PyNone) }
    \cup { JsonlLine("object", v) : v \in {Str("a"), Str("b"), Str(""), PyNone, List("x")} }

\* a variant of the test of a line's context that keeps an empty string
AddLineKeepsEmpty(unique_contexts_dict, line) ==
    IF line.json # "object"
    THEN unique_contexts_dict
    ELSE LET context == line.context
         IN  IF /\ context.kind = "str"
                /\ \A i \in 1 .. Len(unique_contexts_dict) : unique_contexts_dict[i] # context.s
             THEN Append(unique_contexts_dict, context.s)
             ELSE unique_contexts_dict

\* the body of the loop over the lines: a blank line is skipped; json.loads
\* raising JSONDecodeError, or .get raising on a value that is no object, is
\* logged; a context that is a non-empty string not yet a key becomes the last
\* key of unique_contexts_dict (a dict keeps its keys in insertion order)
AddLine(unique_contexts_dict, line) ==
    IF line.json # "object"
    THEN unique_contexts_dict
    ELSE LET context == line.context
         IN  IF /\ context.kind = "str"
                /\ context.s # ""
                /\ \A i \in 1 .. Len(unique_contexts_dict) : unique_contexts_dict[i] # context.s
             THEN Append(unique_contexts_dict, context.s)
             ELSE unique_contexts_dict

\* for line_number, line in enumerate(infile, start=1)
RECURSIVE ReadLines(_, _)
ReadLines(lines, unique_contexts_dict) ==
    IF lines = <<>>
    THEN unique_contexts_dict
    ELSE ReadLines(Tail(lines), AddLine(unique_contexts_dict, Head(lines)))

JsonlFile(readable, lines) == [readable |-> readable, lines |-> lines]

\* what one turn of the loop over the files leaves: whether the output file
\* was written and with which list, and whether all_contexts_extracted stays
NoOutputFile(ok) == [ok |-> ok, written |-> FALSE, contents |-> <<>>]

\* one turn of the loop over the files: the file cannot be read (continue,
\* all_contexts_extracted = False); no key was collected (continue); or the
\* list of keys is dumped to the output file, which succeeds or fails
ExtractFile(file) ==
    IF ~file.readable
    THEN { NoOutputFile(FALSE) }
    ELSE LET unique_contexts_list == ReadLines(file.lines, <<>>)
         IN  IF unique_contexts_list = <<>>
             THEN { NoOutputFile(TRUE) }
             ELSE { [ok |-> TRUE, written |-> TRUE, contents |-> unique_contexts_list],
                    NoOutputFile(FALSE) }

\* for file_path in jsonl_files
RECURSIVE ExtractFiles(_, _)
ExtractFiles(jsonl_files, outs) ==
    IF jsonl_files = <<>>
    THEN { outs }
    ELSE UNION { ExtractFiles(Tail(jsonl_files), Append(outs, o)) :
                 o \in ExtractFile(Head(jsonl_files)) }

\* extract_unique_contexts(input_directory, output_directory): the output of
\* each file, and the value returned (all_contexts_extracted)
extract_unique_contexts(jsonl_files) ==
    { [outs |-> outs, ret |-> \A i \in 1 .. Len(outs) : outs[i].ok] :
      outs \in ExtractFiles(jsonl_files, <<>>) }

UcIdle == [pc |-> "idle", files |-> <<>>, outs |-> <<>>, ret |-> FALSE]

\* a download directory without a JSONL file, or with one file of up to
\* MaxLines lines, or with one that cannot be read
ContextsInit ==
    \/ uc = [UcIdle EXCEPT !.pc = "ready"]
    \/ \E n \in 0 .. MaxLines : \E lines \in [1 .. n -> JsonlLines] :
          uc = [UcIdle EXCEPT !.pc = "ready", !.files = <<JsonlFile(TRUE, lines)>>]
    \/ uc = [UcIdle EXCEPT !.pc = "ready", !.files = <<JsonlFile(FALSE, <<>>)>>]

\* extraction_successful = extract_unique_contexts(download_dir, output_dir)
ExtractUniqueContexts ==
    /\ focus = "contexts"
    /\ uc.pc = "ready"
    /\ \E r \in extract_unique_contexts(uc.files) :
          uc' = [uc EXCEPT !.pc = "done", !.outs = r.outs, !.ret = r.ret]
    /\ UNCHANGED <<opVars, rl, envl, xq, net>>

-----------------------------------------------------------------------------
(* The host: it delivers events to an operator, one at a time, and keeps    *)
(* delivering whatever the previous call returned.                          *)

\* the ids of the Input events an operator may be sent
InputIds(op) ==
    CASE op = "data_prep" -> {"trigger"}
      [] op \in {"question_gen", "rag_index"} -> {"unique_contexts_dir", "other"}
      [] op = "rag_query" -> {"generated_questions_file", "rag_index_dir", "other"}
      [] OTHER -> {"query_results"}

\* the paths an Input event with this id may carry
InputPaths(op, id) ==
    CASE id = "trigger" -> {"trigger"}
      [] id = "unique_contexts_dir" -> {"ctx_dir", "missing", ""}
      [] id = "generated_questions_file" ->
            {"questions.txt", "questions2.txt", "index_dir", "missing"}
      [] id = "rag_index_dir" -> {"index_dir", "ctx_dir", "questions.txt", "missing"}
      [] OTHER -> {"missing"}

\* the paths the host hands over raw; the others come in an envelope
RawPaths == {"trigger", "ctx_dir", "missing", ""}

\* dora_event["value"][0].as_py(): a raw path, or an envelope around a path
InputValues(op, id) ==
    IF op = "result_logger"
    THEN { RagQueryOutput("results.json", "errors.json"), Str("results.json") }
    ELSE { IF path \in RawPaths
           THEN Str(path)
           ELSE create_agent_output_data_prep("upstream", Str(path), FALSE) :
           path \in InputPaths(op, id) }
         \cup (IF id = "unique_contexts_dir" THEN { DataPrepOutput } ELSE {})

Event(type, id, value, meta) == [type |-> type, id |-> id, value |-> value, meta |-> meta]

NoEvent == Event("none", "", PyNone, 0)

\* the events the host may deliver as its meta-th event
Events(op, meta) ==
    UNION { { Event("INPUT", id, value, meta) : value \in InputValues(op, id) } :
            id \in InputIds(op) }
    \cup { Event("STOP", "", PyNone, meta), Event("ERROR", "", PyNone, meta) }

OnEvent(op, s, e) ==
    CASE op = "data_prep" -> data_prep_on_event(s, e)
      [] op = "question_gen" -> question_gen_on_event(s, e)
      [] op = "rag_index" -> rag_index_on_event(s, e)
      [] op = "rag_query" -> rag_query_on_event(s, e)
      [] OTHER -> result_logger_on_event(s, e)

Hist0 == [started |-> 0, released |-> 0, sends |-> 0, bridged |-> 0, stops |-> 0]

Count(b) == IF b THEN 1 ELSE 0

\* one on_event call of operator op, from its entry to its return or raise
Deliver(op) ==
    /\ focus = op
    /\ ev.type = "none"
    /\ nEv < MaxEvents
    /\ \E e \in Events(op, nEv + 1) :
         \E r \in OnEvent(op, ops[op], e) :
            /\ ops' = [ops EXCEPT ![op] = r.s]
            /\ ev' = e
            /\ obs' = r.o
            /\ hist' = [hist EXCEPT ![op] =
                          [started |-> @.started + Count(r.o.started),
                           released |-> @.released + Count(r.o.released),
                           sends |-> @.sends + r.o.sends,
                           bridged |-> @.bridged + Count(r.o.bridge # "none"),
                           stops |-> @.stops + Count(r.o.ret = "STOP")]]
            /\ outbox' = outbox \o r.out
    /\ nEv' = nEv + 1
    /\ UNCHANGED <<focus, rl, envl, xq, uc, net>>

\* the host takes the status on_event returned (or the exception it raised)
\* and is ready to deliver its next event
HostReceiveStatus ==
    /\ ev.type # "none"
    /\ ev' = NoEvent
    /\ obs' = Obs0
    /\ UNCHANGED <<focus, ops, nEv, hist, outbox, rl, envl, xq, uc, net>>

DataPrepOnEvent == Deliver("data_prep")

QuestionGenOnEvent == Deliver("question_gen")

RagIndexOnEvent == Deliver("rag_index")

RagQueryOnEvent == Deliver("rag_query")

ResultLoggerOnEvent == Deliver("result_logger")

OpsInit ==
    /\ ops = [op \in Ops |-> OpInit]
    /\ nEv = 0
    /\ ev = NoEvent
    /\ obs = Obs0
    /\ hist = [op \in Ops |-> Hist0]
    /\ outbox = <<>>

\* the host drives one operator instance; or a retry loop is stepped from its
\* first test to its return; or a value is wrapped and unwrapped
Init ==
    /\ OpsInit
    /\ net = {}
    /\ \/ focus \in Ops /\ rl = LoopIdle /\ envl = EnvlIdle /\ xq = XqIdle /\ uc = UcIdle
       \/ focus = "retry" /\ RetryInit /\ envl = EnvlIdle /\ xq = XqIdle /\ uc = UcIdle
       \/ focus = "envelope" /\ rl = LoopIdle /\ EnvlInit /\ xq = XqIdle /\ uc = UcIdle
       \/ focus = "extract" /\ rl = LoopIdle /\ envl = EnvlIdle /\ ExtractInit /\ uc = UcIdle
       \/ focus = "contexts" /\ rl = LoopIdle /\ envl = EnvlIdle /\ xq = XqIdle /\ ContextsInit

Next ==
    \/ DataPrepOnEvent
    \/ QuestionGenOnEvent
    \/ RagIndexOnEvent
    \/ RagQueryOnEvent
    \/ ResultLoggerOnEvent
    \/ HostReceiveStatus
    \/ RetryTest
    \/ RetryCall
    \/ RetrySleep
    \/ HostStopDuringRetry
    \/ EnvlWrap
    \/ EnvlUnwrap
    \/ ExtractQueries
    \/ ExtractUniqueContexts

Spec == Init /\ [][Next]_vars

-----------------------------------------------------------------------------
(* The pipeline: an output sent on a channel becomes an Input, with the     *)
(* channel id as its id, of every operator that takes the channel.          *)

\* the operators that take a channel as an input
Subscribers(channel) ==
    CASE channel = "trigger" -> {"data_prep"}
      [] channel = "unique_contexts_dir" -> {"question_gen", "rag_index"}
      [] channel \in {"generated_questions_file", "rag_index_dir"} -> {"rag_query"}
      [] channel = "query_results" -> {"result_logger"}
      [] OTHER -> {}

\* the Inputs a sequence of send_output calls gives rise to; a call that
\* raised delivered nothing
Routed(out) ==
    UNION { { [to |-> op, id |-> out[i].channel, value |-> out[i].data,
               meta |-> out[i].meta] : op \in Subscribers(out[i].channel) } :
            i \in { j \in 1 .. Len(out) : ~out[j].raised } }

\* the trigger Input the host sends data_prep
TriggerInput == [to |-> "data_prep", id |-> "trigger", value |-> Str("trigger"), meta |-> 1]

\* the host hands a pending Input to the operator it is for, unless that
\* operator has returned STOP; what the call sends is routed on
PipeDeliver(op) ==
    /\ focus = "pipeline"
    /\ ev.type = "none"
    /\ hist[op].stops = 0
    /\ \E m \in net :
         /\ m.to = op
         /\ \E r \in OnEvent(op, ops[op], Event("INPUT", m.id, m.value, m.meta)) :
              /\ ops' = [ops EXCEPT ![op] = r.s]
              /\ ev' = Event("INPUT", m.id, m.value, m.meta)
              /\ obs' = r.o
              /\ hist' = [hist EXCEPT ![op] =
                            [started |-> @.started + Count(r.o.started),
                             released |-> @.released + Count(r.o.released),
                             sends |-> @.sends + r.o.sends,
                             bridged |-> @.bridged + Count(r.o.bridge # "none"),
                             stops |-> @.stops + Count(r.o.ret = "STOP")]]
              /\ outbox' = outbox \o r.out
              /\ net' = (net \ {m}) \cup Routed(r.out)
    /\ nEv' = nEv + 1
    /\ UNCHANGED <<focus, rl, envl, xq, uc>>

PipeDataPrep == PipeDeliver("data_prep")

PipeQuestionGen == PipeDeliver("question_gen")

PipeRagIndex == PipeDeliver("rag_index")

PipeRagQuery == PipeDeliver("rag_query")

PipeResultLogger == PipeDeliver("result_logger")

PipeInit ==
    /\ OpsInit
    /\ focus = "pipeline"
    /\ rl = LoopIdle
    /\ envl = EnvlIdle
    /\ xq = XqIdle
    /\ uc = UcIdle
    /\ net = {TriggerInput}

PipeNext ==
    \/ PipeDataPrep
    \/ PipeQuestionGen
    \/ PipeRagIndex
    \/ PipeRagQuery
    \/ PipeResultLogger
    \/ HostReceiveStatus

\* a delivery, whatever the operator does with it: an Input is pending for an
\* operator that has not returned STOP, and the host counts one more event
HostDelivers ==
    /\ focus = "pipeline"
    /\ ev.type = "none"
    /\ \E m \in net : hist[m.to].stops = 0
    /\ nEv' = nEv + 1

\* the host keeps delivering pending Inputs, and takes the status of every
\* on_event call
SpecPipeline ==
    PipeInit /\ [][PipeNext]_vars /\ WF_nEv(HostDelivers) /\ WF_vars(HostReceiveStatus)

-----------------------------------------------------------------------------
(* Properties.  A state with ev.type # "none" is the state right after an   *)
(* on_event call: ev is the event it handled and obs what it did.            *)

IsOp == focus \in Ops

\* the retry loops in view: the loop stepped on its own, and the loop the last
\* on_event call ran
LoopsInView == {rl, obs.loop}

\* every attempt of a finished loop failed
Exhausted(r) ==
    r.pc = "done" /\ r.N >= 1 /\ (r.k = 0 \/ r.k > r.N)

\* a finished loop whose operation succeeds on an attempt the loop allows
SucceedsWithin(r) ==
    r.pc = "done" /\ r.k >= 1 /\ r.k <= r.N

\* call, wait, call, ..., call
Alternates(trace) ==
    \A i \in 1 .. Len(trace) : trace[i] = IF i % 2 = 1 THEN "call" ELSE "wait"

\* C1: an Input handled by an operator whose processed flag is set returns
\* CONTINUE, sends nothing, makes no external call and leaves every field of
\* the operator unchanged.
C1_TerminalInputIsNoOp ==
    [][ (IsOp /\ ev.type = "none" /\ ev'.type = "INPUT" /\ ops[focus].processed)
        => /\ obs'.ret = "CONTINUE"
           /\ obs'.sends = 0
           /\ obs'.calls = 0
           /\ ~obs'.started
           /\ outbox' = outbox
           /\ ops' = ops ]_vars

\* C2: over the lifetime of an operator instance its main effect is started
\* at most once.
C2_MainEffectAtMostOnce ==
    \A op \in Ops : hist[op].started <= 1

\* C3: over the lifetime of an operator instance send_output is called at
\* most once, and result_logger never calls it.
C3_AtMostOneSend ==
    /\ \A op \in Ops : hist[op].sends <= 1
    /\ hist["result_logger"].sends = 0

\* C4: an on_event call that reaches processing ends with processed set and
\* returns STOP; the envelope is sent exactly once if the stage logic
\* succeeded (result_logger, the sink, has none to send) and not at all if
\* it failed.
C4_ProcessingEndsTerminal ==
    (IsOp /\ ev.type = "INPUT" /\ (obs.started \/ obs.bridge # "none"))
    => /\ ops[focus].processed
       /\ obs.ret = "STOP"
       /\ (obs.outcome = "success" /\ focus # "result_logger") => obs.sends = 1
       /\ obs.outcome = "failure" => obs.sends = 0

\* one on_event call of rag_query, seen as a step
RagQueryCall == focus = "rag_query" /\ ev.type = "none" /\ ev'.type # "none"

\* C5: rag_query starts nothing while fewer than both of its inputs are
\* stored: a call that loads the configuration, sets up the RAG instance,
\* runs the query task or sends has both paths stored; as long as one path
\* is missing every call has returned CONTINUE and nothing has been loaded,
\* started or sent; and the call that stores the second path enters the
\* processing branch.
C5_JoinGate ==
    [][ RagQueryCall =>
        LET s == ops["rag_query"]
            t == ops'["rag_query"]
            o == obs'
            both == t.questions_file_path # "None" /\ t.rag_index_dir # "None"
        IN  /\ (o.released \/ o.cfgLoad \/ o.depSetup \/ o.started \/ o.sends > 0
                  \/ o.calls > 0 \/ o.bridge # "none") => both
            /\ ~both => /\ o.ret = "CONTINUE"
                        /\ hist'["rag_query"] = Hist0
                        /\ outbox' = <<>>
                        /\ t.config = NoConfig
                        /\ ~t.rag_instance /\ ~t.dep1 /\ ~t.dep2 /\ ~t.processed
            /\ (both /\ (s.questions_file_path = "None" \/ s.rag_index_dir = "None"))
                  => /\ o.released
                     /\ hist'["rag_query"].released = 1
                     /\ o.bridge = "ran" => o.started ]_vars

\* rag_index_dir arrived first, generated_questions_file second, and the
\* second call ran the query task
C5_Witness ==
    /\ focus = "rag_query" /\ nEv = 2
    /\ ev.type = "INPUT" /\ ev.id = "generated_questions_file"
    /\ obs.released /\ obs.started /\ obs.queries > 0
    /\ ops["rag_query"].rag_index_dir = "index_dir"

\* C6: the join of rag_query releases at most once in the lifetime of the
\* instance.
C6_ReleaseAtMostOnce ==
    hist["rag_query"].released <= 1

\* C7: a retry loop with max attempts N >= 1 whose operation always fails
\* invokes it exactly N times, waits exactly N - 1 times, each wait between
\* two invocations, and then stops.
C7_ExhaustionCounts ==
    \A r \in LoopsInView :
        /\ r.N >= 1 /\ r.pc # "idle" => r.calls <= r.N /\ r.waits <= r.N - 1
        /\ Exhausted(r) => /\ r.calls = r.N
                           /\ r.waits = r.N - 1
                           /\ Len(r.trace) = 2 * r.N - 1
                           /\ Alternates(r.trace)
                           /\ LoopStep(r) = r

\* a query loop of three attempts that all failed
C7_Witness ==
    /\ focus = "retry" /\ Exhausted(rl)
    /\ rl.kind = "query" /\ rl.N = 3 /\ rl.calls = 3 /\ rl.waits = 2

\* C8: a retry loop whose operation fails on attempts 1 .. k-1 and succeeds
\* on attempt k <= N invokes it exactly k times, waits k - 1 times and
\* returns the success value of attempt k; data_prep, after two failed
\* downloads and a third that succeeds, sends exactly one envelope, with
\* dataflow_status false, and so does each single-input stage whose logic
\* then succeeds.
C8_SuccessOnAttemptK ==
    /\ \A r \in LoopsInView :
          SucceedsWithin(r) => /\ r.calls = r.k
                               /\ r.waits = r.k - 1
                               /\ Alternates(r.trace)
                               /\ r.result.ok
                               /\ r.result = LoopReturn(r.kind, "success", r.dne, r.k)
                               /\ r.kind \in {"llm", "query"} => r.result.att = r.k
    /\ (focus \in {"data_prep", "question_gen", "rag_index"} /\ ev.type = "INPUT"
          /\ SucceedsWithin(obs.loop) /\ obs.loop.N = 3 /\ obs.loop.k = 3)
       => /\ obs.sends <= 1
          /\ (focus = "data_prep" /\ obs.extract \in {"ok", "issues"}) => obs.sends = 1
          /\ obs.outcome = "success" => obs.sends = 1
          /\ obs.sends = 1 =>
                /\ outbox # <<>>
                /\ outbox[Len(outbox)].meta = ev.meta
                /\ outbox[Len(outbox)].data.d["dataflow_status"] = Bool(FALSE)

\* data_prep downloaded at the third of three attempts and sent its envelope
C8_Witness ==
    /\ focus = "data_prep" /\ ev.type = "INPUT"
    /\ obs.loop.kind = "download" /\ obs.loop.N = 3 /\ obs.loop.k = 3
    /\ obs.loop.calls = 3 /\ obs.loop.waits = 2
    /\ obs.sends = 1 /\ ~obs.sendRaised /\ obs.ret = "STOP"

\* C9 as stated: a loop whose attempts all failed returns a failure value
\* that carries the last error, never a success value.
C9_ExhaustionReturnsLastError ==
    \A r \in LoopsInView :
        Exhausted(r) => ~r.result.ok /\ r.result.err = r.N

\* C9: a loop whose attempts all failed returns its failure value and no
\* response: download_dataset returns False, or True when the download
\* directory exists and is not empty; call_llm_for_questions returns None;
\* the insertion loop returns False; _process_single_query returns the error
\* record, which alone carries the last error.
C9_ExhaustionReturn ==
    \A r \in LoopsInView :
        Exhausted(r) =>
            /\ r.result.att = 0
            /\ r.kind = "download" =>
                  r.result = Ret(r.dne, IF r.dne THEN "True" ELSE "False", 0, 0)
            /\ r.kind = "llm" => r.result = Ret(FALSE, "None", 0, 0)
            /\ r.kind = "insert" => r.result = Ret(FALSE, "False", 0, 0)
            /\ r.kind = "query" => r.result = Ret(FALSE, "error_record", 0, r.N)

\* three downloads failed and the directory was there: True is returned
C9_Witness ==
    /\ focus = "retry" /\ Exhausted(rl)
    /\ rl.kind = "download" /\ rl.N = 3 /\ rl.calls = 3 /\ rl.dne
    /\ rl.result.ok

\* C10: unwrapping what was just wrapped gives back the wrapped value,
\* whatever copy of the helpers is used and also when the value itself looks
\* like an envelope.
C10_RoundTrip ==
    /\ envl.last = "roundtrip" => envl.cur = envl.before
    /\ envl.pc = "run" =>
          \A p \in Producers, c \in Consumers, f \in BOOLEAN :
              Unwrap(c, Wrap(p, "data_prep", envl.cur, f)) = envl.cur

\* an envelope was wrapped once more and unwrapped by another stage's helper
C10_Witness ==
    /\ focus = "envelope" /\ envl.last = "roundtrip"
    /\ HasAgentResult(envl.before) /\ envl.before.d["agent_result"].kind = "dict"
    /\ envl.producer = "rag_query" /\ envl.consumer = "result_logger"

\* a value of the envelope shape: a record with the three envelope fields
MatchesEnvelope(v) == v.kind = "dict" /\ EnvelopeKeys \subseteq DOMAIN v.d

\* C11: load_node_result returns unchanged every value that does not have
\* the envelope shape: a string, None, a list, or a record lacking one of
\* agent_name, agent_result, dataflow_status.
C11_UnwrapTolerance ==
    (envl.last = "unwrap" /\ ~MatchesEnvelope(envl.before)) => envl.cur = envl.before

\* one on_event call handling an Input, seen as a step
InputCall == IsOp /\ ev.type = "none" /\ ev'.type = "INPUT"

\* the causes of a failed configuration load, and of a failed dependency setup
ConfigFailures == {"config_missing", "config_keys", "config_late"}

SetupFailures == {"deps_failed"}

\* C12: a call that hits a fatal condition (a failed configuration load or
\* dependency setup among them) returns STOP with processed set, and an Input
\* delivered after a call that returned STOP is a no-op: no configuration
\* load, no dependency setup, no processing.
C12_FatalIsTerminal ==
    [][ InputCall =>
        /\ obs'.cause \in ConfigFailures \cup SetupFailures => obs'.ret = "STOP"
        /\ obs'.ret = "STOP" => ops'[focus].processed
        /\ hist[focus].stops > 0 =>
              /\ obs'.ret = "CONTINUE"
              /\ ~obs'.cfgLoad /\ ~obs'.depSetup /\ ~obs'.started
              /\ obs'.bridge = "none" /\ obs'.sends = 0 ]_vars

\* C13: a call whose configuration load fails returns STOP without starting
\* anything: no dependency setup, no task, no download, LLM call, insert or
\* query, and no send_output.
C13_ConfigFailureStops ==
    (IsOp /\ ev.type = "INPUT" /\ obs.cfgLoad /\ obs.cause \in ConfigFailures)
    => /\ obs.ret = "STOP"
       /\ obs.calls = 0 /\ obs.waits = 0 /\ obs.loop = LoopIdle
       /\ obs.sends = 0
       /\ ~obs.depSetup /\ ~obs.started /\ obs.bridge = "none"
       /\ obs.queries = 0 /\ obs.files = <<>> /\ obs.extract = "none"
       /\ ~ops[focus].rag_instance

\* rag_query had both inputs and its configuration lacked a required key
C13_Witness ==
    /\ focus = "rag_query" /\ ev.type = "INPUT"
    /\ obs.released /\ obs.cfgLoad /\ obs.cause = "config_keys"
    /\ obs.ret = "STOP" /\ outbox = <<>>

BridgedOps == {"question_gen", "rag_index", "rag_query"}

\* C14: in question_gen, rag_index and rag_query a task that fails, or an
\* event loop that refuses to run it, never escapes on_event: the call
\* returns STOP with processed set and no output, and reads no unassigned
\* result variable.
C14_TaskFailureContained ==
    (focus \in BridgedOps /\ ev.type = "INPUT"
       /\ (obs.bridge = "refused" \/ (obs.bridge = "ran" /\ obs.outcome # "success")))
    => /\ obs.ret = "STOP"
       /\ ops[focus].processed
       /\ obs.sends = 0
       /\ obs.cause # "unbound_success"

C16_StopHonouredInLoop ==
    [][ rl.stop => rl'.calls = rl.calls ]_vars

\* one on_event call handling a Stop or an Error event, seen as a step
StopOrErrorCall == IsOp /\ ev.type = "none" /\ ev'.type \in {"STOP", "ERROR"}

\* C17: handling a Stop or an Error event returns CONTINUE, sends nothing and
\* changes no field of the operator, in terminal states too; handling the
\* same event once more changes nothing either.
C17_StopErrorNoOp ==
    [][ StopOrErrorCall =>
        /\ obs'.ret = "CONTINUE"
        /\ obs'.sends = 0 /\ obs'.calls = 0 /\ ~obs'.started /\ ~obs'.cfgLoad
        /\ ops' = ops
        /\ outbox' = outbox
        /\ hist' = hist
        /\ \A r \in OnEvent(focus, ops'[focus], ev') :
              r.s = ops[focus] /\ r.out = <<>> /\ r.o = obs' ]_vars

\* rag_query, terminal, was sent a Stop
C17_Witness ==
    /\ focus = "rag_query" /\ ev.type = "STOP"
    /\ ops["rag_query"].processed /\ ops["rag_query"].config.state = "ok"
    /\ hist["rag_query"].sends = 1
    /\ obs.ret = "CONTINUE"

\* the Input events that carry a valid payload for one of rag_query's ids
ValidInputs(id, meta) ==
    { Event("INPUT", id, v, meta) :
        v \in { w \in InputValues("rag_query", id) :
                  IF id = "generated_questions_file"
                  THEN IsFile(load_node_result_rag_query(w).s)
                  ELSE IsDir(load_node_result_rag_query(w).s) } }

\* every way two consecutive rag_query calls can go: what the first returned
\* and sent, and the fields, the doings and the sends of the second
TwoCalls(s, e1, e2) ==
    UNION { { [first |-> r1.o.ret, firstOut |-> r1.out, s |-> r2.s, o |-> r2.o,
               out |-> r2.out] :
              r2 \in rag_query_on_event(r1.s, e2) } :
            r1 \in rag_query_on_event(s, e1) }

\* C18: from a rag_query operator that has stored neither input, a valid
\* questions file then a valid index directory, and the same two in the
\* other order, can go in exactly the same ways: the same stored paths, the
\* same query task on the same arguments, the same envelope.
C18_JoinOrderIndependent ==
    (focus = "rag_query" /\ ev.type = "none"
       /\ ops["rag_query"].questions_file_path = "None"
       /\ ops["rag_query"].rag_index_dir = "None")
    => \A q \in ValidInputs("generated_questions_file", 0),
          d \in ValidInputs("rag_index_dir", 0) :
          LET s == ops["rag_query"]
              qd == TwoCalls(s, [q EXCEPT !.meta = nEv + 1], [d EXCEPT !.meta = nEv + 2])
              dq == TwoCalls(s, [d EXCEPT !.meta = nEv + 1], [q EXCEPT !.meta = nEv + 2])
          IN  /\ qd = dq
              /\ \E r \in qd : r.o.sends = 1 /\ r.o.queries > 0
              /\ \A r \in qd :
                    /\ r.first = "CONTINUE" /\ r.firstOut = <<>>
                    /\ r.o.released
                    /\ r.s.questions_file_path = load_node_result_rag_query(q.value).s
                    /\ r.s.rag_index_dir = load_node_result_rag_query(d.value).s

\* the questions file came first, the index directory released the join,
\* and the envelope went out
C18_Witness ==
    /\ focus = "rag_query" /\ nEv = 2
    /\ ev.type = "INPUT" /\ ev.id = "rag_index_dir"
    /\ obs.released /\ obs.sends = 1 /\ ~obs.sendRaised
    /\ ops["rag_query"].questions_file_path = "questions2.txt"
    /\ ops["rag_query"].rag_index_dir = "index_dir"
    /\ hist["rag_query"].released = 1

\* the path an Input of rag_query carries, and whether it passes the check
\* its id calls for
PayloadOf(e) == load_node_result_rag_query(e.value).s

InvalidFor(e) ==
    \/ e.id = "generated_questions_file" /\ ~IsFile(PayloadOf(e))
    \/ e.id = "rag_index_dir" /\ ~IsDir(PayloadOf(e))

StoredFor(s, id) ==
    IF id = "generated_questions_file" THEN s.questions_file_path ELSE s.rag_index_dir

\* C19: rag_query rejects an Input whose payload fails the validity check of
\* its id: the stored path is unchanged, processed is unchanged, the call
\* returns CONTINUE, and a later valid payload for the id is still stored.
C19_InvalidPayloadRejected ==
    [][ (focus = "rag_query" /\ InputCall /\ InvalidFor(ev')) =>
        /\ StoredFor(ops'["rag_query"], ev'.id) = StoredFor(ops["rag_query"], ev'.id)
        /\ ops'["rag_query"].processed = ops["rag_query"].processed
        /\ obs'.ret = "CONTINUE"
        /\ \A e2 \in ValidInputs(ev'.id, 0) :
              StoredFor(RagQueryStoreInput(ops'["rag_query"], e2), ev'.id) = PayloadOf(e2) ]_vars

\* C20: question_gen, rag_index and rag_query reject an Input whose id is not
\* one they expect: the call returns CONTINUE, changes no field, loads no
\* configuration, starts nothing, and leaves the join of rag_query as it was.
C20_UnexpectedIdIgnored ==
    [][ (focus \in BridgedOps /\ InputCall
           /\ ev'.id \notin (IF focus = "rag_query"
                             THEN {"generated_questions_file", "rag_index_dir"}
                             ELSE {"unique_contexts_dir"})) =>
        /\ obs'.ret = "CONTINUE"
        /\ ops' = ops
        /\ hist' = hist
        /\ outbox' = outbox
        /\ ~obs'.cfgLoad /\ ~obs'.depSetup /\ ~obs'.released /\ ~obs'.started
        /\ obs'.bridge = "none" /\ obs'.calls = 0 /\ obs'.sends = 0 ]_vars

\* rag_query, waiting for its index directory, was sent an Input of another id
C20_Witness ==
    /\ focus = "rag_query" /\ ev.type = "INPUT" /\ ev.id = "other"
    /\ ops["rag_query"].questions_file_path = "questions.txt"
    /\ ops["rag_query"].rag_index_dir = "None"
    /\ obs.ret = "CONTINUE" /\ hist["rag_query"] = Hist0

\* the last on_event call ended as a failed run: no envelope, processed set, STOP
FatalRun ==
    /\ obs.outcome = "failure"
    /\ ops[focus].processed
    /\ obs.sends = 0
    /\ obs.ret = "STOP"

\* an external call of the last on_event call failed on every attempt
ExhaustedInCall ==
    Exhausted(obs.loop) \/ (focus = "rag_query" /\ obs.errors # <<>>)

\* C21 as stated: an external call (download, LLM completion, insertion,
\* retrieval query) whose attempts all failed makes the operator run fail: no
\* envelope, processed set, STOP returned
C21_ExhaustionIsFatal ==
    (IsOp /\ ev.type = "INPUT" /\ ExhaustedInCall) => FatalRun

\* C21 (amended): an exhausted LLM completion or insertion, and an exhausted
\* download that left the target directory empty, make the run fail (no
\* envelope, processed set, STOP); an exhausted download that left files in
\* the directory goes on to the extraction; an exhausted retrieval query is
\* recorded in the errors list, the remaining queries are still processed, and
\* the run succeeds exactly when both the results and the errors file are
\* written
C21_ExhaustionOutcome ==
    (IsOp /\ ev.type = "INPUT") =>
        /\ (Exhausted(obs.loop) /\ obs.loop.kind \in {"llm", "insert"}) => FatalRun
        /\ (Exhausted(obs.loop) /\ obs.loop.kind = "download") =>
               IF obs.loop.dne THEN obs.extract # "none" ELSE FatalRun
        /\ (focus = "rag_query" /\ obs.errors # <<>>) =>
               /\ Len(obs.results) + Len(obs.errors) = obs.queries
               /\ obs.outcome = "success" <=>
                      (obs.rwrite \in {"ok", "fallback_ok"} /\ obs.ewrite = "ok")
               /\ obs.outcome = "success" => obs.sends = 1

\* a rag_query run in which the first query failed on every attempt, the second
\* succeeded, and the envelope was sent
C21_Witness ==
    /\ focus = "rag_query"
    /\ obs.errors = <<1>>
    /\ obs.results = <<2>>
    /\ obs.outcome = "success"
    /\ obs.sends = 1
    /\ ~obs.sendRaised
    /\ ops["rag_query"].processed

\* an Input of a single-input stage on unique_contexts_dir whose unwrapped
\* payload is empty or names no existing directory
InvalidDirInput(op, e) ==
    /\ op \in {"question_gen", "rag_index"}
    /\ e.type = "INPUT"
    /\ e.id = "unique_contexts_dir"
    /\ LET dir == Unwrap(op, e.value).s
       IN  dir = "" \/ ~IsDir(dir)

\* C22: in question_gen and rag_index an Input on unique_contexts_dir whose
\* payload is empty or is not an existing directory, handled by an operator
\* that has not processed yet, is fatal: no LLM or insertion call is made, no
\* output is sent, processed is set and STOP is returned
C22_InvalidDirIsFatal ==
    [][ (InputCall /\ InvalidDirInput(focus, ev') /\ ~ops[focus].processed) =>
            /\ obs'.calls = 0
            /\ obs'.sends = 0
            /\ ops'[focus].processed
            /\ obs'.ret = "STOP" ]_vars

\* the first write of the results array raised TypeError in the last call
SerializationFailed ==
    focus = "rag_query" /\ obs.rwrite \in {"fallback_ok", "fallback_failed"}

\* C23 as stated: after a serialization failure the run fails only if the
\* fallback write fails as well, and a fallback write that succeeds makes the
\* run a success with the envelope sent
C23_FallbackDecides ==
    SerializationFailed =>
        /\ obs.outcome = "failure" <=> obs.rwrite = "fallback_failed"
        /\ obs.rwrite = "fallback_ok" => (obs.outcome = "success" /\ obs.sends = 1)

\* C23 (amended): after a serialization failure of the results write the
\* default=str fallback write decides whether a results file exists: if the
\* fallback fails too the run fails and nothing is sent; if the fallback
\* succeeds the run succeeds exactly when the errors file is written as well,
\* and then the envelope carrying both file paths is sent once
C23_FallbackThenErrorsWrite ==
    SerializationFailed =>
        /\ obs.rwrite = "fallback_failed" => (obs.outcome = "failure" /\ obs.sends = 0)
        /\ obs.rwrite = "fallback_ok" =>
              /\ obs.outcome = "success" <=> obs.ewrite = "ok"
              /\ obs.outcome = "failure" => obs.sends = 0
              /\ obs.outcome = "success" =>
                    /\ obs.sends = 1
                    /\ outbox[Len(outbox)].data =
                          RagQueryOutput("results.json", "errors.json")

\* a rag_query run saved by the fallback write: the envelope was sent
C23_Witness ==
    /\ focus = "rag_query"
    /\ obs.rwrite = "fallback_ok"
    /\ obs.ewrite = "ok"
    /\ obs.outcome = "success"
    /\ obs.sends = 1
    /\ obs.ret = "STOP"

\* the dataflow_status entry of a sent envelope is True
IsFinal(m) ==
    /\ m.data.kind = "dict"
    /\ "dataflow_status" \in DOMAIN m.data.d
    /\ m.data.d["dataflow_status"].s = "True"

\* C24: every payload handed to send_output is an envelope, and its
\* dataflow_status is True exactly when rag_query sent it on query_results;
\* the envelopes of data_prep, question_gen and rag_index carry False
C24_FinalOnlyFromRagQuery ==
    \A i \in 1 .. Len(outbox) :
        /\ DOMAIN outbox[i].data.d = EnvelopeKeys
        /\ outbox[i].data.d["dataflow_status"].kind = "bool"
        /\ IsFinal(outbox[i]) <=>
              (outbox[i].op = "rag_query" /\ outbox[i].channel = "query_results")
        /\ outbox[i].op \in {"data_prep", "question_gen", "rag_index"} => ~IsFinal(outbox[i])

\* rag_query has sent its envelope, flagged final, on query_results
C24_Witness ==
    /\ focus = "rag_query"
    /\ Len(outbox) >= 1
    /\ outbox[1].channel = "query_results"
    /\ IsFinal(outbox[1])
    /\ ~outbox[1].raised

\* the send_output calls of the last on_event call: the tail of the outbox
SentInCall == { i \in 1 .. Len(outbox) : i > Len(outbox) - obs.sends }

\* C25: the metadata argument of every send_output call is the metadata of the
\* Input event that on_event call is handling (in rag_query: the Input that
\* completed the join)
C25_MetadataForwarded ==
    /\ obs.sends <= Len(outbox)
    /\ obs.sends > 0 => ev.type = "INPUT"
    /\ \A i \in SentInCall : outbox[i].meta = ev.meta /\ outbox[i].op = focus

\* rag_query sent its envelope while handling its second Input, the one that
\* completed the join, with that event's metadata
C25_Witness ==
    /\ focus = "rag_query"
    /\ ev.type = "INPUT"
    /\ ev.meta = 2
    /\ obs.released
    /\ obs.sends = 1
    /\ outbox[Len(outbox)].meta = 2

\* C26: in every operator processed is False after construction, and once it
\* is True no event of any kind sets it back to False
C26_ProcessedMonotone ==
    /\ \A op \in Ops : ~ops[op].processed
    /\ [][ \A op \in Ops : ops[op].processed => ops'[op].processed ]_vars

\* an operator that had finished handled a Stop event and is still processed
C26_Witness ==
    /\ IsOp
    /\ ev.type = "STOP"
    /\ ops[focus].processed
    /\ hist[focus].started >= 1

\* C27: in rag_query a stored questions file path or index directory stays
\* stored: no later event of any kind (valid, invalid, duplicate, unexpected
\* id, Stop, Error) removes it or resets it to empty
C27_CollectedInputsMonotone ==
    [][ \A id \in {"generated_questions_file", "rag_index_dir"} :
          StoredFor(ops["rag_query"], id) \notin {"None", ""} =>
              StoredFor(ops'["rag_query"], id) \notin {"None", ""} ]_vars

\* rag_query handled an Input with an invalid payload for an id it already
\* holds a path for, and still holds that path
C27_Witness ==
    /\ focus = "rag_query"
    /\ ev.type = "INPUT"
    /\ InvalidFor(ev)
    /\ StoredFor(ops["rag_query"], ev.id) \notin {"None", ""}
    /\ ev.meta >= 2

\* the question a line holds: the text after its first marker, without the
\* bold markup and the surrounding blanks (empty: the line holds no question)
RECURSIVE AfterMarker(_)
AfterMarker(line) ==
    IF line = <<>>
    THEN <<>>
    ELSE IF Head(line) = "Q" THEN Tail(line) ELSE AfterMarker(Tail(line))

QuestionOf(line) == Strip(SelectSeq(AfterMarker(line), LAMBDA t : t # "**"))

\* the questions of a file, line by line
QuestionsOf(lines) ==
    SelectSeq([i \in 1 .. Len(lines) |-> QuestionOf(lines[i])], LAMBDA q : q # <<>>)

\* C28: extract_queries returns, in file order, the stripped text after the
\* marker of every line that holds a question; lines without a marker and
\* markers without a question contribute nothing
C28_ExtractQueries ==
    (xq.pc = "done" /\ xq.file.readable) => xq.queries = QuestionsOf(xq.file.lines)

\* the last on_event call ran stage logic: an external call (download, LLM
\* completion, insertion, query) or the extraction of data_prep
StageLogicRan == obs.calls > 0 \/ obs.extract # "none"

\* C29: an operator that runs its stage logic has a configuration (not None),
\* and question_gen, rag_index and rag_query have both dependency handles
\* (tokenizer and client, or LLM and embedding function) as well
C29_ConfiguredBeforeProcessing ==
    (IsOp /\ StageLogicRan) =>
        /\ ops[focus].config.state # "None"
        /\ focus \in {"question_gen", "rag_index", "rag_query"} =>
              (ops[focus].dep1 /\ ops[focus].dep2)

\* rag_query ran a query with its configuration loaded and both functions set
C29_Witness ==
    /\ focus = "rag_query"
    /\ obs.cfgLoad
    /\ obs.depSetup
    /\ obs.calls > 0
    /\ ops["rag_query"].config.state = "ok"
    /\ ops["rag_query"].dep1
    /\ ops["rag_query"].dep2

\* the conditions of a pipeline run in which, in the last on_event call, the
\* configuration load succeeded, the payload was valid and every external
\* call succeeded within its retry budget
LoadsPayloadsCallsSucceed ==
    /\ obs.cause \notin ConfigFailures
    /\ obs.cause \notin {"invalid_input", "download_failed", "llm_failed", "insert_failed"}
    /\ obs.loop.pc = "idle" \/ SucceedsWithin(obs.loop)
    /\ obs.errors = <<>>

\* nothing else failed in the last on_event call: the dependency setup, the
\* event-loop bridge, the RAG initialisation, the reads and writes of files,
\* the content the LLM returned, the extraction of the queries, send_output
NothingElseFails ==
    /\ obs.cause = ""
    /\ ~obs.sendRaised
    /\ obs.bridge # "refused"
    /\ obs.rwrite \in {"none", "ok", "fallback_ok"}
    /\ obs.ewrite \in {"none", "ok"}

\* the sends of an operator, and those flagged final
SendsOf(op) == { i \in 1 .. Len(outbox) : outbox[i].op = op }

FinalSends == { i \in 1 .. Len(outbox) : outbox[i].data.d["dataflow_status"].s = "True" }

\* the pipeline run is complete: all five operators are processed, each of
\* the first four has sent one envelope, one envelope in all is final
PipeDone ==
    /\ \A op \in Ops : ops[op].processed
    /\ \A op \in Ops \ {"result_logger"} : Cardinality(SendsOf(op)) = 1
    /\ Cardinality(FinalSends) = 1

\* C30: from one trigger Input for data_prep, if every configuration load
\* succeeds, every payload is valid and every external call succeeds within
\* its retry budget, the pipeline run eventually is complete and stays so, in
\* whichever order question_gen and rag_index finish
C30_PipelineLiveness ==
    []LoadsPayloadsCallsSucceed => <>[]PipeDone

\* the handlers as written complete the run when, besides, nothing else fails
\* in any on_event call
PipelineCompletesWithoutFault ==
    [](LoadsPayloadsCallsSucceed /\ NothingElseFails) => <>[]PipeDone

\* an upstream operator ended Failed: it is processed and none of its sends
\* reached the host
Delivered(op) == { i \in SendsOf(op) : ~outbox[i].raised }

UpstreamFailed ==
    \E op \in {"data_prep", "question_gen", "rag_index"} :
        ops[op].processed /\ Delivered(op) = {}

\* rag_query has not started its query run, nothing final was sent,
\* result_logger has handled no input, neither is processed, and a call of
\* rag_query that just returned returned CONTINUE
Contained ==
    /\ hist["rag_query"].released = 0
    /\ hist["rag_query"].started = 0
    /\ FinalSends = {}
    /\ hist["result_logger"].started = 0
    /\ ~ops["rag_query"].processed
    /\ ~ops["result_logger"].processed
    /\ \A m \in net : m.to # "result_logger"
    /\ (ev.type = "INPUT" /\ ev.id \in {"generated_questions_file", "rag_index_dir"})
           => obs.ret = "CONTINUE"

\* C31: once data_prep, question_gen or rag_index has ended Failed without
\* emitting, rag_query never starts its query run, no final envelope is ever
\* emitted, result_logger never handles an input, and both stay non-completed,
\* rag_query returning CONTINUE for the one input it may still receive
C31_FailureContained == [](UpstreamFailed => []Contained)

\* question_gen has failed and rag_query has just been handed the index
\* directory alone
C31_Witness ==
    /\ focus = "pipeline"
    /\ ops["question_gen"].processed /\ Delivered("question_gen") = {}
    /\ ev.type = "INPUT" /\ ev.id = "rag_index_dir"
    /\ ops["rag_query"].rag_index_dir # "None"

\* C32: every on_event call terminates and hands a status back to the host,
\* CONTINUE or STOP, whatever the external calls it makes return or raise
C32_CallReturnsStatus ==
    ev.type # "none" => obs.ret \in {"CONTINUE", "STOP"}

\* C33: a load_config that returned False in the last call leaves self.config
\* None, whichever way it failed: file or section missing, required key
\* missing, or an error after the section was read
C33_FailedLoadUnconfigures ==
    (IsOp /\ obs.cfgLoad /\ obs.cause \in {"config_missing", "config_keys", "config_late"})
        => ops[focus].config.state = "None"

\* C34: when send_output raised while data_prep, question_gen, rag_index or
\* rag_query was emitting its envelope, that on_event call still ends with
\* processed set
C34_SendFailureIsTerminal ==
    (IsOp /\ focus # "result_logger" /\ obs.sends > 0 /\ obs.sendRaised)
        => ops[focus].processed

\* the last call of rag_index reached its file loop: the task ran, the RAG
\* instance was initialized and the payload named a directory
FileLoopReached ==
    /\ focus = "rag_index"
    /\ ev.type = "INPUT"
    /\ obs.started
    /\ obs.cause \notin {"rag_init", "invalid_input"}

AllFilesDone ==
    /\ Len(obs.files) = obs.matched
    /\ \A i \in 1 .. Len(obs.files) : obs.files[i] \in {"inserted", "empty"}

\* C35: rag_index takes the matched files in sequence and stops at the first
\* one that fails: only the last file attempted can have failed, the files
\* before it stay inserted, and then no envelope is sent and the call ends
\* processed, Failed, with STOP; the envelope is sent if and only if every
\* matched file was inserted or held an empty list (also when none matched),
\* and no insert is called for files holding an empty list
C35_StopAtFirstFailedFile ==
    FileLoopReached =>
        /\ Len(obs.files) <= obs.matched
        /\ \A i \in 1 .. Len(obs.files) - 1 : obs.files[i] \in {"inserted", "empty"}
        /\ (Len(obs.files) > 0 /\ obs.files[Len(obs.files)] = "failed")
              => /\ obs.sends = 0
                 /\ obs.outcome = "failure"
                 /\ obs.ret = "STOP"
                 /\ ops["rag_index"].processed
        /\ obs.sends = 1 <=> AllFilesDone
        /\ obs.sends \in {0, 1}
        /\ (\A i \in 1 .. Len(obs.files) : obs.files[i] = "empty") => obs.calls = 0
        /\ Cardinality({ i \in 1 .. Len(obs.files) : obs.files[i] = "inserted" }) <= obs.calls

\* of two matched files the first was inserted and the second failed
C35_Witness ==
    /\ FileLoopReached
    /\ obs.matched = 2
    /\ obs.files = <<"inserted", "failed">>
    /\ obs.calls > 1
    /\ obs.sends = 0
    /\ obs.ret = "STOP"

\* two matched files were inserted and the envelope was sent
C35_WitnessAllInserted ==
    /\ FileLoopReached
    /\ obs.files = <<"inserted", "inserted">>
    /\ obs.sends = 1

\* a sequence of query indices in extraction order, none repeated
InExtractionOrder(recs) ==
    \A i, j \in 1 .. Len(recs) : i < j => recs[i] < recs[j]

RecordedIn(recs) == { recs[i] : i \in 1 .. Len(recs) }

\* C36: in a query run of rag_query every extracted query yields exactly one
\* record, in the results list or in the errors list and never in both: the
\* two lists together hold each query once, their lengths add up to the number
\* of extracted queries, each is in extraction order, and no query takes more
\* than QUERY_MAX_RETRIES attempts
C36_OneRecordPerQuery ==
    (focus = "rag_query" /\ ev.type = "INPUT" /\ obs.queries > 0) =>
        /\ RecordedIn(obs.results) \cup RecordedIn(obs.errors) = 1 .. obs.queries
        /\ RecordedIn(obs.results) \cap RecordedIn(obs.errors) = {}
        /\ Len(obs.results) + Len(obs.errors) = obs.queries
        /\ InExtractionOrder(obs.results)
        /\ InExtractionOrder(obs.errors)
        /\ Len(obs.results) <= obs.calls
        /\ ops["rag_query"].config.max_retries >= 0
              => obs.calls <= obs.queries * ops["rag_query"].config.max_retries
        /\ ops["rag_query"].config.max_retries <= 0 => obs.calls = 0

\* two queries were extracted, the first failed on every attempt and the
\* second succeeded
C36_Witness ==
    /\ focus = "rag_query"
    /\ obs.queries = 2
    /\ obs.errors = <<1>>
    /\ obs.results = <<2>>
    /\ obs.calls > 1

\* the last call of data_prep ran its main logic; its download or directory
\* check reported success exactly when the extraction was entered
DataPrepRan == focus = "data_prep" /\ ev.type = "INPUT" /\ obs.started

DownloadReportedSuccess == obs.extract # "none"

FailureValue(kind) ==
    CASE kind \in {"download", "insert"} -> "False"
      [] kind = "llm" -> "None"
      [] OTHER -> "error_record"

\* a loop that was given no attempt has invoked nothing and waited for
\* nothing, and once it has returned its value is the failure value
NoAttemptRun(r) ==
    /\ r.calls = 0
    /\ r.waits = 0
    /\ r.trace = <<>>
    /\ r.pc \in {"test", "done"}
    /\ r.pc = "done" =>
          /\ ~r.result.ok
          /\ r.result.py = FailureValue(r.kind)
          /\ r.result.att = 0
          /\ r.result.err = 0

\* C38: a retry loop given a maximum attempt count of 0 or less invokes its
\* operation zero times, waits for no delay and returns its failure value
\* (False, None or an error record); so does the loop an operator ran with
\* INSERT_MAX_RETRIES or QUERY_MAX_RETRIES set to 0
C38_NoAttemptsNoCalls ==
    /\ (focus = "retry" /\ rl.N <= 0) => NoAttemptRun(rl)
    /\ (IsOp /\ obs.loop.pc # "idle" /\ obs.loop.N <= 0) =>
          (NoAttemptRun(obs.loop) /\ obs.loop.pc = "done" /\ obs.calls = 0)

\* a query loop given a negative attempt count has returned its error record
C38_Witness ==
    /\ focus = "retry"
    /\ rl.kind = "query"
    /\ rl.N < 0
    /\ rl.k = 1
    /\ rl.pc = "done"
    /\ rl.result.py = "error_record"
    /\ rl.calls = 0

\* rag_index ran its insertion loop with INSERT_MAX_RETRIES = 0 and failed
C38_WitnessInsert ==
    /\ focus = "rag_index"
    /\ obs.loop.kind = "insert"
    /\ obs.loop.N = 0
    /\ obs.loop.pc = "done"
    /\ obs.files = <<"failed">>

\* the non-empty strings that are the context of an object line of a file,
\* and the line at which each first occurs
StringContexts(lines) ==
    { lines[i].context.s :
      i \in { j \in 1 .. Len(lines) :
                /\ lines[j].json = "object"
                /\ lines[j].context.kind = "str"
                /\ lines[j].context.s # "" } }

FirstLineOf(lines, s) ==
    CHOOSE i \in 1 .. Len(lines) :
        /\ lines[i].json = "object" /\ lines[i].context = Str(s)
        /\ \A j \in 1 .. i - 1 : ~(lines[j].json = "object" /\ lines[j].context = Str(s))

====
